---------------------------- MODULE Spec2Model ----------------------------
(***************************************************************************)
(* A model of the fault-tolerance toolkit: the Pauli algebra, the Pauli-web *)
(* computation on ZX diagrams, flip operators, push-out of noise models and *)
(* the weighted equivalence search.                                         *)
(*                                                                          *)
(* Conventions.  None is modelled by -1.  A Python dict is a function with  *)
(* a finite domain, a Python list a sequence, a Python set a set.  Phases   *)
(* are counted in units of pi/2 (0..3).                                     *)
(***************************************************************************)
EXTENDS Integers, Sequences, FiniteSets, TLC

VARIABLES
    (* --- equivalence search (paritea/equivalence/enumeration.py) --- *)
    nm1_sigs, nm2_sigs,      \* the two input lists of (signature, weight)
    d1_detectors, d2_detectors,
    nm1, nm2,                \* per-model search state (atomics, pq, lookups)
    w,                       \* the current weight level
    nm1_undetectable, nm2_undetectable,   \* results of the last unfolds
    result,                  \* the returned weight, None while running
    until,                   \* the weight ceiling, None when absent
    epc,                     \* position in _next_gen_strategy
    (* --- flip operators on a generating set (faulttools/flip_operators.py) --- *)
    web_generating_set,      \* the input list of webs
    restriction,             \* the edges restriction_func keeps
    new_gen_set, flip_ops,   \* the two lists under construction
    curr_gen_idx,            \* the loop index of _flip_operators
    fpc,                     \* position in _flip_operators
    (* --- Pauli webs, flip operators and push-out on a diagram --- *)
    diagram,                 \* the ZX diagram
    hash_desc,               \* the order in which the graph lists neighbours
    stabs, regions,          \* the result of compute_pauli_webs
    partitions,              \* the partitions of the non-boundary nodes
    part_webs,               \* the result of pauli_webs_through_partitions
    flips,                   \* the FlipOperators of the diagram
    model,                   \* the atomic faults of a noise model
    pushed,                  \* the atomic faults of push_out(model, flips)
    repushed,                \* the atomic faults of push_out(pushed, flips)
    wpc,                     \* what has been computed on the diagram
    (* --- operations on Pauli strings (faulttools/pauli.py) --- *)
    p_in,                    \* the arguments the two strings are built from
    p_a, p_b,                \* the two strings
    p_arg,                   \* the further argument of the last operation
    p_out,                   \* what the last operation returned
    ppc,                     \* the last operation
    (* --- is_fault_equivalence (equivalence/check_fault_equivalence.py) --- *)
    eq,                      \* the locals of the call
    qpc,                     \* position in the call
    (* --- _compute on the caller's diagram (faulttools/web/compute.py) --- *)
    objs,                    \* the Diagram objects alive, by identity
    call,                    \* the locals of the call
    rpc,                     \* position in the call
    (* --- from_stim (faulttools/glue/stim/stim_circuit.py) --- *)
    stim,                    \* the locals of the call
    hist,                    \* the error declarations read and the edges given since
    spc                      \* position in the call

evars == <<nm1_sigs, nm2_sigs, d1_detectors, d2_detectors, nm1, nm2, w,
           nm1_undetectable, nm2_undetectable, result, until, epc>>

fvars == <<web_generating_set, restriction, new_gen_set, flip_ops, curr_gen_idx, fpc>>

wvars == <<diagram, hash_desc, stabs, regions, partitions, part_webs, flips,
           model, pushed, repushed, wpc>>

pvars == <<p_in, p_a, p_b, p_arg, p_out, ppc>>

qvars == <<eq, qpc>>

rvars == <<objs, call, rpc>>

svars == <<stim, hist, spc>>

vars == <<evars, fvars, wvars, pvars, qvars, rvars, svars>>

\* what the operations of one component leave alone
NotEnum == <<fvars, wvars, pvars, qvars, rvars, svars>>
NotFlip == <<evars, wvars, pvars, qvars, rvars, svars>>
NotWeb == <<evars, fvars, pvars, qvars, rvars, svars>>
NotPauli == <<evars, fvars, wvars, qvars, rvars, svars>>
NotEquiv == <<evars, fvars, pvars, rvars, svars, diagram, stabs, regions, partitions,
              part_webs, flips, model, pushed, repushed, wpc>>
NotRedGreen == <<evars, fvars, pvars, qvars, svars, diagram, stabs, regions,
                 partitions, part_webs, flips, model, pushed, repushed, wpc>>
NotStim == <<evars, fvars, wvars, pvars, qvars, rvars>>

None == -1

\* the components that a specification does not exercise stay idle
EnumIdle ==
    /\ nm1_sigs = <<>>
    /\ nm2_sigs = <<>>
    /\ d1_detectors = 0
    /\ d2_detectors = 0
    /\ nm1 = <<>>
    /\ nm2 = <<>>
    /\ w = 0
    /\ nm1_undetectable = {}
    /\ nm2_undetectable = {}
    /\ result = None
    /\ until = None
    /\ epc = "idle"

FlipIdle ==
    /\ web_generating_set = <<>>
    /\ restriction = {}
    /\ new_gen_set = <<>>
    /\ flip_ops = <<>>
    /\ curr_gen_idx = 0
    /\ fpc = "idle"

WebIdle ==
    /\ diagram = <<>>
    /\ hash_desc = FALSE
    /\ stabs = <<>>
    /\ regions = <<>>
    /\ partitions = <<>>
    /\ part_webs = <<>>
    /\ flips = <<>>
    /\ model = <<>>
    /\ pushed = <<>>
    /\ repushed = <<>>
    /\ wpc = "idle"

PauliIdle ==
    /\ p_in = <<>>
    /\ p_a = <<>>
    /\ p_b = <<>>
    /\ p_arg = <<>>
    /\ p_out = <<>>
    /\ ppc = "idle"

EquivIdle ==
    /\ eq = <<>>
    /\ qpc = "idle"

RedGreenIdle ==
    /\ objs = <<>>
    /\ call = <<>>
    /\ rpc = "idle"

StimIdle ==
    /\ stim = <<>>
    /\ hist = <<>>
    /\ spc = "idle"

(***************************************************************************)
(* Bounds of the model.                                                     *)
(***************************************************************************)
MaxSigBits == 3      \* signatures are integers below 2^MaxSigBits
MaxDetectors == 2    \* number of detector bits of a model (1..MaxDetectors)
MaxWeight == 2       \* atomic weights are 1..MaxWeight
MaxAtomics1 == 3     \* length of the first list of atomic signatures
MaxAtomics2 == 1     \* length of the second list of atomic signatures
MaxLevel == 8        \* the weight level w is counted up to MaxLevel
MaxUntil == 3        \* weight ceilings are 1..MaxUntil
MaxCeilAtomics == 2  \* length of the first list when a ceiling is drawn
MaxSizeAtomics == 2  \* length of the lists of a search by size
MaxPrepared == 3     \* length of a list in any order, repetitions included
MaxQubits == 2       \* qubits of a stim circuit
MaxInstrs == 4       \* instructions of a stim circuit, one target group each
MaxPending == 18     \* error declarations waiting for an edge
MaxPauliEdges == 2   \* edges a Pauli string of the Pauli operations may touch
MaxSinks == 1        \* detector columns appended to the stabiliser matrix

(***************************************************************************)
(* Generic helpers.                                                         *)
(***************************************************************************)
RECURSIVE Pow2(_)
Pow2(n) == IF n = 0 THEN 1 ELSE 2 * Pow2(n - 1)

RECURSIVE BitXor(_, _)
BitXor(a, b) ==
    IF a = 0 THEN b
    ELSE IF b = 0 THEN a
    ELSE (((a % 2) + (b % 2)) % 2) + 2 * BitXor(a \div 2, b \div 2)

RECURSIVE BitAnd(_, _)
BitAnd(a, b) ==
    IF a = 0 \/ b = 0 THEN 0
    ELSE ((a % 2) * (b % 2)) + 2 * BitAnd(a \div 2, b \div 2)

SetMin(S) == CHOOSE x \in S : \A y \in S : x <= y
SetMax(S) == CHOOSE x \in S : \A y \in S : x >= y

\* The elements of a finite set of integers in ascending order.
RECURSIVE SortedSeq(_)
SortedSeq(S) ==
    IF S = {} THEN <<>>
    ELSE LET m == SetMin(S) IN <<m>> \o SortedSeq(S \ {m})

\* dict[k] = v (insert or overwrite)
Put(f, k, v) == [x \in DOMAIN f \cup {k} |-> IF x = k THEN v ELSE f[x]]
\* del dict[k]
Del(f, k) == [x \in DOMAIN f \ {k} |-> f[x]]
EmptyDict == [x \in {} |-> 0]

Range(s) == {s[i] : i \in DOMAIN s}

(***************************************************************************)
(* Equivalence search: paritea/equivalence/enumeration.py                   *)
(***************************************************************************)

\* AtomicFaults(): empty weight_lookup, undetectable, detectable_with_detectors
EmptyAtomics ==
    [weight_lookup |-> EmptyDict, undetectable |-> {},
     detectable_with_detectors |-> EmptyDict]

\* prepare_atomic_faults: one pass over the list, keeping the minimum weight
RECURSIVE prepare_atomic_faults_from(_, _, _, _)
prepare_atomic_faults_from(nm_sigs, i, atomics, num_detectors) ==
    IF i > Len(nm_sigs) THEN atomics
    ELSE
        LET sig == nm_sigs[i][1]
            v == nm_sigs[i][2]
            detector_mask == Pow2(num_detectors) - 1
            info == sig % (detector_mask + 1)
            detectable == info > 0
            a1 == IF detectable
                  THEN IF sig \notin DOMAIN atomics.detectable_with_detectors
                       THEN [atomics EXCEPT
                               !.detectable_with_detectors = Put(@, sig, info),
                               !.weight_lookup = Put(@, sig, v)]
                       ELSE atomics
                  ELSE IF sig \notin atomics.undetectable
                       THEN [atomics EXCEPT
                               !.undetectable = @ \cup {sig},
                               !.weight_lookup = Put(@, sig, v)]
                       ELSE atomics
            a2 == IF a1.weight_lookup[sig] <= v THEN a1
                  ELSE [a1 EXCEPT !.weight_lookup = Put(@, sig, v)]
        IN prepare_atomic_faults_from(nm_sigs, i + 1, a2, num_detectors)

\* a preparation that keeps the weight of the first entry of a signature
prepare_atomic_faults_keeping_first(nm_sigs, num_detectors) ==
    LET sigs == {nm_sigs[i][1] : i \in DOMAIN nm_sigs}
        first(sig) == SetMin({i \in DOMAIN nm_sigs : nm_sigs[i][1] = sig})
        detectable == {sig \in sigs : sig % Pow2(num_detectors) > 0}
    IN [weight_lookup |-> [sig \in sigs |-> nm_sigs[first(sig)][2]],
        undetectable |-> sigs \ detectable,
        detectable_with_detectors |->
            [sig \in detectable |-> sig % Pow2(num_detectors)]]

prepare_atomic_faults(nm_sigs, num_detectors) ==
    prepare_atomic_faults_from(nm_sigs, 1, EmptyAtomics, num_detectors)

\* prepare_priority_queue: weight -> set of atomic signatures of that weight
prepare_priority_queue(atomics) ==
    LET sigs == DOMAIN atomics.weight_lookup
        ws == {atomics.weight_lookup[s] : s \in sigs}
    IN [v \in ws |-> {s \in sigs : atomics.weight_lookup[s] = v}]

\* AtomicFaults.detector_overlapping: the lowest-weight atomic signatures
\* that share a detector with detector_info
detector_overlapping(atomics, detector_info) ==
    LET over == {s \in DOMAIN atomics.detectable_with_detectors :
                   BitAnd(detector_info, atomics.detectable_with_detectors[s]) # 0}
    IN IF over = {} THEN {}
       ELSE LET lowest == SetMin({atomics.weight_lookup[s] : s \in over})
            IN {s \in over : atomics.weight_lookup[s] = lowest}

\* pq[comb_w].add(x) for every x in xs, creating the bucket when missing
PqAddAll(pq, comb_w, xs) ==
    IF xs = {} THEN pq
    ELSE Put(pq, comb_w, (IF comb_w \in DOMAIN pq THEN pq[comb_w] ELSE {}) \cup xs)

\* The body of "for sig in queue" of _next_gen_unfold for one signature.
\* st = [pq, detectable_lookup, undetectable_lookup, atomics, new_queue,
\*       undetectables_generated]
UnfoldOne(st, sig, lvl, num_detectors) ==
    LET detector_mask == Pow2(num_detectors) - 1
        detector_info == sig % (detector_mask + 1)
        detectable == detector_info > 0
        sig_no_sinks == sig \div (detector_mask + 1)
        skip == IF detectable
                THEN sig \in DOMAIN st.detectable_lookup
                     /\ st.detectable_lookup[sig] <= lvl
                ELSE sig_no_sinks \in DOMAIN st.undetectable_lookup
                     /\ st.undetectable_lookup[sig_no_sinks] <= lvl
    IN IF skip THEN st
       ELSE
        LET s1 == IF detectable
                  THEN [st EXCEPT !.detectable_lookup = Put(@, sig, lvl)]
                  ELSE [st EXCEPT
                          !.undetectable_lookup = Put(@, sig_no_sinks, lvl),
                          !.undetectables_generated = @ \cup {sig_no_sinks}]
            wl == s1.atomics.weight_lookup
            at == IF sig \in DOMAIN wl /\ wl[sig] > lvl
                  THEN [s1.atomics EXCEPT !.weight_lookup = Put(@, sig, lvl)]
                  ELSE s1.atomics
            atomic_faults == IF ~detectable THEN at.undetectable
                             ELSE detector_overlapping(at, detector_info)
            same == {a \in atomic_faults : at.weight_lookup[a] + lvl = lvl}
            later == atomic_faults \ same
            later_ws == {at.weight_lookup[a] + lvl : a \in later}
            RECURSIVE AddLater(_, _)
            AddLater(pq, ws) ==
                IF ws = {} THEN pq
                ELSE LET cw == SetMin(ws)
                     IN AddLater(
                          PqAddAll(pq, cw,
                                   {BitXor(a, sig) : a \in
                                      {b \in later : at.weight_lookup[b] + lvl = cw}}),
                          ws \ {cw})
        IN [s1 EXCEPT
              !.atomics = at,
              !.new_queue = @ \cup {BitXor(a, sig) : a \in same},
              !.pq = AddLater(@, later_ws)]

\* "for sig in queue": the signatures of one pass, in iteration order
RECURSIVE UnfoldPass(_, _, _, _, _)
UnfoldPass(st, order, i, lvl, num_detectors) ==
    IF i > Len(order) THEN st
    ELSE UnfoldPass(UnfoldOne(st, order[i], lvl, num_detectors),
                    order, i + 1, lvl, num_detectors)

\* "while len(queue) > 0": passes until no same-weight signature is left
RECURSIVE UnfoldLoop(_, _, _, _)
UnfoldLoop(st, queue, lvl, num_detectors) ==
    IF queue = {} THEN st
    ELSE LET after == UnfoldPass([st EXCEPT !.new_queue = {}],
                                 SortedSeq(queue), 1, lvl, num_detectors)
         IN UnfoldLoop(after, after.new_queue, lvl, num_detectors)

\* an unfold that forgets the entries of the signatures it pops
next_gen_unfold_overwriting(lvl, m, num_detectors) ==
    LET queue == IF lvl \in DOMAIN m.pq THEN m.pq[lvl] ELSE {}
        forget(lookup, keys) == [x \in DOMAIN lookup \ keys |-> lookup[x]]
        popped == [m EXCEPT !.pq = IF lvl \in DOMAIN m.pq THEN Del(m.pq, lvl) ELSE m.pq,
                            !.undetectables_generated = {},
                            !.new_queue = {},
                            !.detectable_lookup = forget(@, queue),
                            !.undetectable_lookup =
                                forget(@, {sig \div Pow2(num_detectors) : sig \in
                                             {x \in queue : x % Pow2(num_detectors) = 0}}
                                          \ {0})]
    IN IF queue = {} THEN popped
       ELSE UnfoldLoop(popped, queue, lvl, num_detectors)

\* _next_gen_unfold(w, pq, detectable_lookup, undetectable_lookup, atomics):
\* the updated model state, with the returned set in undetectables_generated
next_gen_unfold(lvl, m, num_detectors) ==
    LET queue == IF lvl \in DOMAIN m.pq THEN m.pq[lvl] ELSE {}
        popped == [m EXCEPT !.pq = IF lvl \in DOMAIN m.pq THEN Del(m.pq, lvl) ELSE m.pq,
                            !.undetectables_generated = {},
                            !.new_queue = {}]
    IN IF queue = {} THEN popped
       ELSE UnfoldLoop(popped, queue, lvl, num_detectors)

\* The state of one model right after the preparation in _next_gen_strategy
PreparedModel(nm_sigs, num_detectors) ==
    LET atomics == prepare_atomic_faults(nm_sigs, num_detectors)
    IN [atomics |-> atomics,
        pq |-> prepare_priority_queue(atomics),
        detectable_lookup |-> EmptyDict,
        undetectable_lookup |-> [x \in {0} |-> 0],
        new_queue |-> {},
        undetectables_generated |-> {}]

\* The inputs: lists of (signature, weight), listed without repetition in
\* ascending order of 8*signature + weight
SigPairs == {<<s, v>> : s \in 0..(Pow2(MaxSigBits) - 1), v \in 1..MaxWeight}
PairKey(p) == p[1] * (MaxWeight + 1) + p[2]
RECURSIVE PairList(_)
PairList(S) ==
    IF S = {} THEN <<>>
    ELSE LET m == CHOOSE p \in S : \A q \in S : PairKey(p) <= PairKey(q)
         IN <<m>> \o PairList(S \ {m})
SigLists(n) == {PairList(S) : S \in {T \in SUBSET SigPairs : Cardinality(T) <= n}}

EnumInit ==
    /\ nm1_sigs \in SigLists(MaxAtomics1)
    /\ nm2_sigs \in SigLists(MaxAtomics2)
    /\ d1_detectors \in 1..MaxDetectors
    /\ d2_detectors = d1_detectors
    /\ nm1 = PreparedModel(nm1_sigs, d1_detectors)
    /\ nm2 = PreparedModel(nm2_sigs, d2_detectors)
    /\ w = 0
    /\ nm1_undetectable = {}
    /\ nm2_undetectable = {}
    /\ result = None
    /\ until = None
    /\ epc = "loop"
    /\ FlipIdle
    /\ WebIdle
    /\ PauliIdle
    /\ EquivIdle
    /\ RedGreenIdle
    /\ StimIdle

\* A loop condition that compares the level with the ceiling itself
loop_condition_late ==
    /\ (DOMAIN nm1.pq # {} \/ DOMAIN nm2.pq # {})
    /\ (until = None \/ w < until)

\* The loop condition of _next_gen_strategy
loop_condition ==
    /\ (DOMAIN nm1.pq # {} \/ DOMAIN nm2.pq # {})
    /\ (until = None \/ w < until - 1)

\* while (len(nm1_pq) > 0 or len(nm2_pq) > 0) and (until is None or
\* w < until - 1): w += 1, then the unfold of the first model.  The level is
\* counted up to MaxLevel; it stays there once every key left in the two
\* queues is below it, when a further level finds nothing to pop and the
\* iteration differs from the one before in the value of w only.
Unfold1 ==
    /\ epc = "loop"
    /\ loop_condition
    /\ \/ w < MaxLevel
       \/ \A k \in DOMAIN nm1.pq \cup DOMAIN nm2.pq : k < w
    /\ w' = IF w < MaxLevel THEN w + 1 ELSE w
    /\ nm1' = next_gen_unfold(w', nm1, d1_detectors)
    /\ nm1_undetectable' = nm1'.undetectables_generated
    /\ epc' = "unfold2"
    /\ UNCHANGED <<nm1_sigs, nm2_sigs, d1_detectors, d2_detectors, nm2,
                   nm2_undetectable, result, until>>
    /\ UNCHANGED NotEnum

\* the unfold of the second model at the same level
Unfold2 ==
    /\ epc = "unfold2"
    /\ nm2' = next_gen_unfold(w, nm2, d2_detectors)
    /\ nm2_undetectable' = nm2'.undetectables_generated
    /\ epc' = "check"
    /\ UNCHANGED <<nm1_sigs, nm2_sigs, d1_detectors, d2_detectors, nm1, w,
                   nm1_undetectable, result, until>>
    /\ UNCHANGED NotEnum

\* the two cross checks at the end of the loop body: return w on a mismatch
CrossCheck ==
    /\ epc = "check"
    /\ LET miss1 == \E sig \in nm1_undetectable : sig \notin DOMAIN nm2.undetectable_lookup
           miss2 == \E sig \in nm2_undetectable : sig \notin DOMAIN nm1.undetectable_lookup
       IN IF miss1 \/ miss2
          THEN result' = w /\ epc' = "done"
          ELSE result' = result /\ epc' = "loop"
    /\ UNCHANGED <<nm1_sigs, nm2_sigs, d1_detectors, d2_detectors, nm1, nm2, w,
                   nm1_undetectable, nm2_undetectable, until>>
    /\ UNCHANGED NotEnum

\* the loop condition fails: return None
ReturnNone ==
    /\ epc = "loop"
    /\ ~loop_condition
    /\ result' = None
    /\ epc' = "done"
    /\ UNCHANGED <<nm1_sigs, nm2_sigs, d1_detectors, d2_detectors, nm1, nm2, w,
                   nm1_undetectable, nm2_undetectable, until>>
    /\ UNCHANGED NotEnum

EnumNext == Unfold1 \/ Unfold2 \/ CrossCheck \/ ReturnNone

SpecEnum == EnumInit /\ [][EnumNext]_vars

(***************************************************************************)
(* Brute-force reference for the search: all XOR-combinations of a list.    *)
(***************************************************************************)
RECURSIVE ComboSig(_, _)
ComboSig(nm_sigs, S) ==
    IF S = {} THEN 0
    ELSE LET i == SetMin(S) IN BitXor(nm_sigs[i][1], ComboSig(nm_sigs, S \ {i}))

RECURSIVE ComboWeight(_, _)
ComboWeight(nm_sigs, S) ==
    IF S = {} THEN 0
    ELSE LET i == SetMin(S) IN nm_sigs[i][2] + ComboWeight(nm_sigs, S \ {i})

\* boundary signature -> minimum total weight of an undetectable combination
MinUndetectable(nm_sigs, num_detectors) ==
    LET combos == SUBSET (DOMAIN nm_sigs)
        undet == {S \in combos : ComboSig(nm_sigs, S) % Pow2(num_detectors) = 0}
        bnd(S) == ComboSig(nm_sigs, S) \div Pow2(num_detectors)
        bs == {bnd(S) : S \in undet}
    IN [b \in bs |-> SetMin({ComboWeight(nm_sigs, S) : S \in {T \in undet : bnd(T) = b}})]

BruteForce ==
    LET m1 == MinUndetectable(nm1_sigs, d1_detectors)
        m2 == MinUndetectable(nm2_sigs, d2_detectors)
        cand == {m1[b] : b \in {c \in DOMAIN m1 : c \notin DOMAIN m2 \/ m2[c] > m1[c]}}
                \cup {m2[b] : b \in {c \in DOMAIN m2 : c \notin DOMAIN m1 \/ m1[c] > m2[c]}}
    IN IF cand = {} THEN None ELSE SetMin(cand)

\* C1: with positive weights and no ceiling, the value returned by
\* _next_gen_strategy equals the brute-force minimum distinguishing weight
\* (None exactly when no distinguishing combination exists).
C1_MatchesBruteForce == epc = "done" => result = BruteForce


(***************************************************************************)
(* The search under a weight ceiling and with zero-weight atomics, and the  *)
(* size-by-size search _normal_strategy of the same file.                   *)
(***************************************************************************)

\* a search that reports its first signature without looking for a match
first_signature_weight(g1_sigs, g2_sigs, g1_sinks, g2_sinks, ceiling) ==
    IF g1_sigs = <<>> THEN None ELSE g1_sigs[1][2]

\* _normal_strategy(g1_sigs, g2_sigs, g1_sinks, g2_boundaries, g2_sinks,
\* until=ceiling): the returned size, None when the loop ends without a
\* mismatch.  The lookups are kept as their key sets, the lists of the new
\* signatures of a size as sets.
normal_strategy(g1_sigs, g2_sigs, g1_sinks, g2_sinks, ceiling) ==
    LET g1_unique_sigs == {g1_sigs[i][1] : i \in DOMAIN g1_sigs}
        g2_unique_sigs == {g2_sigs[i][1] : i \in DOMAIN g2_sigs}
        g1_sink_mask == Pow2(g1_sinks) - 1
        g2_sink_mask == Pow2(g2_sinks) - 1
        n == Cardinality(g2_unique_sigs)
        max_weight == IF ceiling # None
                      THEN (IF n <= ceiling - 1 THEN n ELSE ceiling - 1)
                      ELSE n
        combined(last, sigs) == {BitXor(l, a) : l \in last, a \in sigs}
        RECURSIVE iteration(_, _, _, _, _, _)
        iteration(max_size, g1_undetectable_lookup, g1_detectable_lookup, g2_lookup,
                  g1_last_new_signatures, g2_last_new_detectable) ==
            IF max_size > max_weight THEN None
            ELSE
              LET after_g1(g1_new_det, g1_new_undet) ==
                    LET lookup == g1_undetectable_lookup
                                  \cup {c \div (g1_sink_mask + 1) : c \in g1_new_undet}
                        g2_new == combined(g2_last_new_detectable, g2_unique_sigs)
                                  \ g2_lookup
                    IN IF \E c \in g2_new :
                            /\ BitAnd(c, g2_sink_mask) = 0
                            /\ c \div (g2_sink_mask + 1) \notin lookup
                       THEN max_size
                       ELSE IF g2_new = {} THEN None
                       ELSE iteration(max_size + 1, lookup,
                                      g1_detectable_lookup \cup g1_new_det,
                                      g2_lookup \cup g2_new,
                                      g1_new_det \cup g1_new_undet,
                                      {c \in g2_new : BitAnd(c, g2_sink_mask) > 0})
                  g1_combined == combined(g1_last_new_signatures, g1_unique_sigs)
              IN after_g1(
                   {c \in g1_combined : /\ BitAnd(c, g1_sink_mask) > 0
                                        /\ c \notin g1_detectable_lookup},
                   {c \in g1_combined : /\ BitAnd(c, g1_sink_mask) = 0
                                        /\ c \div (g1_sink_mask + 1)
                                             \notin g1_undetectable_lookup})
    IN IF n = 0 THEN None
       ELSE iteration(1, {0}, {}, {}, {0}, {0})

\* The inputs of a search with a ceiling: weights from 0, ceilings 1..MaxUntil
\* or none
CeilPairs == {<<s, v>> : s \in 0..(Pow2(MaxSigBits) - 1), v \in 0..MaxWeight}
RECURSIVE CeilLists(_)
CeilLists(n) ==
    IF n = 0 THEN {<<>>}
    ELSE LET longer(shorter) ==
               shorter \cup
               {Append(l, p) : l \in {k \in shorter : Len(k) = n - 1},
                               p \in CeilPairs}
             ascending(l) ==
               \A i \in 1..(Len(l) - 1) : PairKey(l[i]) < PairKey(l[i + 1])
         IN {l \in longer(CeilLists(n - 1)) : ascending(l)}

UntilInit ==
    /\ nm1_sigs \in CeilLists(MaxCeilAtomics)
    /\ nm2_sigs \in CeilLists(MaxAtomics2)
    /\ d1_detectors \in 1..MaxDetectors
    /\ d2_detectors = d1_detectors
    /\ until \in {None} \cup (1..MaxUntil)
    /\ nm1 = PreparedModel(nm1_sigs, d1_detectors)
    /\ nm2 = PreparedModel(nm2_sigs, d2_detectors)
    /\ w = 0
    /\ nm1_undetectable = {}
    /\ nm2_undetectable = {}
    /\ result = None
    /\ epc = "loop"
    /\ FlipIdle
    /\ WebIdle
    /\ PauliIdle
    /\ EquivIdle
    /\ RedGreenIdle
    /\ StimIdle

\* a call of _normal_strategy on the same inputs instead of _next_gen_strategy
NormalStrategy ==
    /\ epc = "loop"
    /\ w = 0
    /\ result' = normal_strategy(nm1_sigs, nm2_sigs, d1_detectors, d2_detectors, until)
    /\ epc' = "normal_done"
    /\ UNCHANGED <<nm1_sigs, nm2_sigs, d1_detectors, d2_detectors, nm1, nm2, w,
                   nm1_undetectable, nm2_undetectable, until>>
    /\ UNCHANGED NotEnum

UntilNext == EnumNext \/ NormalStrategy

SpecUntil == UntilInit /\ [][UntilNext]_vars

\* One weighted atomic signature, zero weights included, against no atomic
\* or against itself, searched without a ceiling
LiveInit ==
    /\ nm1_sigs \in CeilLists(1)
    /\ nm2_sigs \in {<<>>, nm1_sigs}
    /\ d1_detectors \in 1..MaxDetectors
    /\ d2_detectors = d1_detectors
    /\ until = None
    /\ nm1 = PreparedModel(nm1_sigs, d1_detectors)
    /\ nm2 = PreparedModel(nm2_sigs, d2_detectors)
    /\ w = 0
    /\ nm1_undetectable = {}
    /\ nm2_undetectable = {}
    /\ result = None
    /\ epc = "loop"
    /\ FlipIdle
    /\ WebIdle
    /\ PauliIdle
    /\ EquivIdle
    /\ RedGreenIdle
    /\ StimIdle

\* the interpreter keeps running the loop
SpecUntilLive == LiveInit /\ [][UntilNext]_vars /\ WF_vars(UntilNext)

\* C11: without a ceiling, _next_gen_strategy returns on every input, lists
\* with zero-weight atomics included.
C11_Terminates == (until = None) ~> (epc \in {"done", "normal_done"})

\* C12: with a ceiling u no level >= u is unfolded, a returned weight of
\* either strategy is below u, and _next_gen_strategy returns None once the
\* level u - 1 is done without a mismatch, whatever the queues still hold.
C12_CeilingBounds == until # None =>
    /\ epc \in {"unfold2", "check"} => w < until
    /\ (epc \in {"done", "normal_done"} /\ result # None) => result < until
    /\ (epc = "loop" /\ w >= until - 1) => ~loop_condition
    /\ (epc = "done" /\ result = None) =>
          (w = until - 1 \/ (DOMAIN nm1.pq = {} /\ DOMAIN nm2.pq = {}))

C12_Witness ==
    /\ until # None
    /\ epc = "done"
    /\ result = None
    /\ w = until - 1
    /\ w >= 1
    /\ \E k \in DOMAIN nm1.pq : k > w

(***************************************************************************)
(* Pauli algebra: faulttools/pauli.py                                       *)
(***************************************************************************)
Pauli == {"I", "X", "Z", "Y"}

\* a product that keeps its left factor
Pauli_mul_left(self, other) == IF self = "I" THEN other ELSE self

\* Pauli.__mul__
Pauli_mul(self, other) ==
    IF self = "I" THEN other
    ELSE IF other = "I" THEN self
    ELSE IF self = other THEN "I"
    ELSE IF self # "X" /\ other # "X" THEN "X"
    ELSE IF self # "Y" /\ other # "Y" THEN "Y"
    ELSE IF self # "Z" /\ other # "Z" THEN "Z"
    ELSE "AssertionError"

\* Pauli.flip
flip(self) ==
    IF self = "X" THEN "Z" ELSE IF self = "Z" THEN "X" ELSE self

\* a test that lets every pair commute
Pauli_commutes_always(self, other) == TRUE

\* Pauli.commutes
Pauli_commutes(self, other) == self = "I" \/ other = "I" \/ self = other

\* a constructor that stores what it is given
PauliString_keeping_identity(o) == o

\* PauliString.__new__ from a dict: identity rotations are not stored
PauliString(o) == [e \in {k \in DOMAIN o : o[k] # "I"} |-> o[e]]

\* PauliString.__new__ from a str, a sequence of characters here: the
\* character at position i of the str is that of edge i, counted from 0
PauliString_str(o) == PauliString([i \in 0..(Len(o) - 1) |-> o[i + 1]])

\* PauliString()
EmptyPauliString == [e \in {} |-> "I"]

\* PauliString.unary
unary(edge, pauli) == PauliString([k \in {edge} |-> pauli])

\* PauliString.__mul__
PauliString_mul(self, other) ==
    PauliString([e \in DOMAIN self \cup DOMAIN other |->
                   IF e \in DOMAIN self /\ e \in DOMAIN other
                   THEN Pauli_mul(self[e], other[e])
                   ELSE IF e \in DOMAIN self THEN self[e] ELSE other[e]])

\* PauliString.restrict
restrict(self, indices) ==
    PauliString([idx \in indices \cap DOMAIN self |-> self[idx]])

\* PauliString.commutes
commutes(self, other) ==
    \A k \in DOMAIN self \cap DOMAIN other : Pauli_commutes(self[k], other[k])

\* PauliString.is_trivial
is_trivial(self) == \A p \in DOMAIN self : self[p] = "I"

\* a compilation that leaves out the X half of the vector
compile_z_bits(self, idx_map) ==
    {idx_map[idx] : idx \in {k \in DOMAIN self : self[k] \in {"Z", "Y"}}}

\* PauliString.compile: the positions of the ones of the compiled vector,
\* idx_map a dict from edge index to position 0..num_indices-1
compile(self, idx_map) ==
    LET num_indices == Cardinality(DOMAIN idx_map)
    IN {idx_map[idx] : idx \in {k \in DOMAIN self : self[k] \in {"Z", "Y"}}}
       \cup {idx_map[idx] + num_indices :
               idx \in {k \in DOMAIN self : self[k] \in {"X", "Y"}}}

\* The product of the webs of a list selected by a set of indices
RECURSIVE product(_, _)
product(webs, S) ==
    IF S = {} THEN EmptyPauliString
    ELSE LET i == SetMin(S) IN PauliString_mul(webs[i], product(webs, S \ {i}))

\* The group generated by a list of webs under PauliString multiplication
Span(webs) == {product(webs, S) : S \in SUBSET DOMAIN webs}

\* No non-empty product of the (restricted) webs of a list is trivial
Independent(webs, indices) ==
    \A S \in SUBSET DOMAIN webs :
        S # {} => ~is_trivial(restrict(product(webs, S), indices))

(***************************************************************************)
(* Flip operators of a generating set: faulttools/flip_operators.py         *)
(***************************************************************************)
MaxFlipEdges == 2    \* generating sets live on the edges 0..MaxFlipEdges-1
MaxGens == 2         \* length of a generating set

\* PauliString.edge_flip(edge, p): the single-edge operator of the opposite
\* type on that edge (Z for X, an X-type flip when p has a Z component)
edge_flip(edge, p) == unary(edge, IF p = "X" THEN "Z" ELSE "X")

\* a restriction_func that keeps every edge of the web
restriction_func_keeping_all(web, edges) == web

\* restriction_func: w.restrict(edges); the default identity is the
\* restriction to a set that holds every edge
restriction_func(web, edges) == restrict(web, edges)

\* The list comprehension that closes one iteration of the loop
sweep(gen_set, gen_idx, flip_op, edges) ==
    [i \in DOMAIN gen_set |->
        IF i = gen_idx \/ commutes(restriction_func(gen_set[i], edges), flip_op)
        THEN gen_set[i]
        ELSE PauliString_mul(gen_set[i], flip_op)]

\* The flip operators one iteration can end with: the last non-identity item
\* of curr_gen.items(), whose iteration order the caller does not fix
flip_op_candidates(curr_gen) ==
    {edge_flip(edge, curr_gen[edge]) : edge \in DOMAIN curr_gen}

\* _flip_operators as a whole: the set of possible results; ok is FALSE for
\* a run that raises the AssertionError
RECURSIVE flip_operators_from(_, _, _, _)
flip_operators_from(ops, gen_set, gen_idx, edges) ==
    IF gen_idx > Len(gen_set)
    THEN {[ok |-> TRUE, flip_ops |-> ops, new_gen_set |-> gen_set]}
    ELSE LET curr_gen == restriction_func(gen_set[gen_idx], edges)
         IN IF DOMAIN curr_gen = {}
            THEN {[ok |-> FALSE, flip_ops |-> ops, new_gen_set |-> gen_set]}
            ELSE UNION {flip_operators_from(Append(ops, flip_op),
                                            sweep(gen_set, gen_idx, flip_op, edges),
                                            gen_idx + 1, edges) :
                          flip_op \in flip_op_candidates(curr_gen)}

flip_operators(gen_set, edges) == flip_operators_from(<<>>, gen_set, 1, edges)

\* The inputs: every list of at most MaxGens webs over the edges
FlipEdges == 0..(MaxFlipEdges - 1)
FlipWebs == UNION {[S -> {"X", "Y", "Z"}] : S \in SUBSET FlipEdges}
GenLists == UNION {[1..n -> FlipWebs] : n \in 0..MaxGens}

FlipInit ==
    /\ web_generating_set \in GenLists
    /\ restriction \in (SUBSET FlipEdges) \ {{}}
    /\ new_gen_set = web_generating_set
    /\ flip_ops = <<>>
    /\ curr_gen_idx = 1
    /\ fpc = "loop"
    /\ EnumIdle
    /\ WebIdle
    /\ PauliIdle
    /\ EquivIdle
    /\ RedGreenIdle
    /\ StimIdle

\* one iteration of "for curr_gen_idx in range(len(new_gen_set))"
FlipSweep ==
    /\ fpc = "loop"
    /\ curr_gen_idx <= Len(new_gen_set)
    /\ LET curr_gen == restriction_func(new_gen_set[curr_gen_idx], restriction)
       IN \E flip_op \in flip_op_candidates(curr_gen) :
            /\ flip_ops' = Append(flip_ops, flip_op)
            /\ new_gen_set' = sweep(new_gen_set, curr_gen_idx, flip_op, restriction)
    /\ curr_gen_idx' = curr_gen_idx + 1
    /\ UNCHANGED <<web_generating_set, restriction, fpc>>
    /\ UNCHANGED NotFlip

\* flip_op is None: raise AssertionError
FlipRaise ==
    /\ fpc = "loop"
    /\ curr_gen_idx <= Len(new_gen_set)
    /\ DOMAIN restriction_func(new_gen_set[curr_gen_idx], restriction) = {}
    /\ fpc' = "raised"
    /\ UNCHANGED <<web_generating_set, restriction, new_gen_set, flip_ops,
                   curr_gen_idx>>
    /\ UNCHANGED NotFlip

\* return flip_ops, new_gen_set
FlipReturn ==
    /\ fpc = "loop"
    /\ curr_gen_idx > Len(new_gen_set)
    /\ fpc' = "done"
    /\ UNCHANGED <<web_generating_set, restriction, new_gen_set, flip_ops,
                   curr_gen_idx>>
    /\ UNCHANGED NotFlip

FlipNext == FlipSweep \/ FlipRaise \/ FlipReturn

SpecFlip == FlipInit /\ [][FlipNext]_vars

\* C3: for a generating set that is independent under the restriction,
\* _flip_operators returns two lists as long as the input, and flip_ops[i]
\* commutes with the restricted new_gens[j] exactly when i # j.
C3_FlipOpsPairUp ==
    (fpc = "done" /\ Independent(web_generating_set, restriction)) =>
        /\ Len(flip_ops) = Len(web_generating_set)
        /\ Len(new_gen_set) = Len(web_generating_set)
        /\ \A i, j \in DOMAIN flip_ops :
             commutes(flip_ops[i], restriction_func(new_gen_set[j], restriction))
                <=> (i # j)

\* C14: after every iteration of the loop of _flip_operators, and at its
\* return, new_gen_set generates the group that web_generating_set generates
\* (for a generating set that is independent under the restriction).
C14_SpanPreserved ==
    (fpc \in {"loop", "done"} /\ Independent(web_generating_set, restriction)) =>
        Span(new_gen_set) = Span(web_generating_set)


(***************************************************************************)
(* Diagrams: faulttools/diagram/diagram.py.  A diagram is a record with the *)
(* node table (type, phase), the edge table (edge index -> endpoints) and   *)
(* the free lists of the wrapped graph, which hands out the index freed     *)
(* last before a fresh one.  Phases are counted in units of pi/2.           *)
(***************************************************************************)
MaxBoundaries == 2   \* boundary nodes of a diagram
MaxSpiders == 2      \* non-boundary nodes of a diagram

NextNode(d) ==
    IF d.free_nodes # <<>> THEN Head(d.free_nodes) ELSE Cardinality(DOMAIN d.type)
NextEdge(d) ==
    IF d.free_edges # <<>> THEN Head(d.free_edges) ELSE Cardinality(DOMAIN d.edges)

\* Diagram.add_node(t): the new node has index NextNode(d) and phase 0
add_node(d, t) ==
    LET idx == NextNode(d)
    IN [d EXCEPT !.type = Put(@, idx, t),
                 !.phase = Put(@, idx, 0),
                 !.free_nodes = IF @ = <<>> THEN @ ELSE Tail(@)]

\* Diagram.add_edge(a, b): the new edge has index NextEdge(d)
add_edge(d, a, b) ==
    LET idx == NextEdge(d)
    IN [d EXCEPT !.edges = Put(@, idx, <<a, b>>),
                 !.free_edges = IF @ = <<>> THEN @ ELSE Tail(@)]

\* Diagram.edge_indices_from_endpoints(a, b), as a set
edge_indices_from_endpoints(d, a, b) ==
    {e \in DOMAIN d.edges : d.edges[e] \in {<<a, b>>, <<b, a>>}}

\* Diagram.remove_edge(a, b)
remove_edge(d, a, b) ==
    LET e == SetMax(edge_indices_from_endpoints(d, a, b))
    IN [d EXCEPT !.edges = Del(@, e), !.free_edges = <<e>> \o @]

\* Diagram.incident_edges(n), as a set
incident_edges(d, n) ==
    {e \in DOMAIN d.edges : d.edges[e][1] = n \/ d.edges[e][2] = n}

\* Diagram.remove_node(idx): the node goes with its edges
remove_node(d, idx) ==
    LET out == {e \in DOMAIN d.edges : d.edges[e][1] = idx}
        inc == incident_edges(d, idx) \ out
    IN [d EXCEPT !.type = Del(@, idx),
                 !.phase = Del(@, idx),
                 !.edges = [e \in DOMAIN @ \ (out \cup inc) |-> @[e]],
                 !.free_edges = SortedSeq(inc) \o SortedSeq(out) \o @,
                 !.free_nodes = <<idx>> \o @]

\* Diagram.add_to_phase
add_to_phase(d, node_idx, ph) == [d EXCEPT !.phase[node_idx] = (@ + ph) % 4]

\* Diagram.node_indices, Diagram.edge_indices, Diagram.edge_list
node_indices(d) == SortedSeq(DOMAIN d.type)
edge_indices(d) == SortedSeq(DOMAIN d.edges)
edge_list(d) == [i \in 1..Cardinality(DOMAIN d.edges) |-> d.edges[edge_indices(d)[i]]]

Reverse(s) == [i \in 1..Len(s) |-> s[Len(s) + 1 - i]]

\* Diagram.neighbors(n): the graph collects them through a hash set, whose
\* order is not fixed; hash_desc selects one of the two orders of a pair
neighbor_set(d, n) ==
    {d.edges[e][2] : e \in {x \in DOMAIN d.edges : d.edges[x][1] = n}}
    \cup {d.edges[e][1] : e \in {x \in DOMAIN d.edges : d.edges[x][2] = n}}
neighbors(d, n) ==
    IF hash_desc THEN Reverse(SortedSeq(neighbor_set(d, n)))
    ELSE SortedSeq(neighbor_set(d, n))

\* Diagram.boundary_nodes, Diagram.boundary_edges
boundary_nodes(d) == SortedSeq({n \in DOMAIN d.type : d.type[n] = "B"})
boundary_edges(d) ==
    UNION {incident_edges(d, b) : b \in {n \in DOMAIN d.type : d.type[n] = "B"}}

\* Diagram.has_parallel_edges
has_parallel_edges(d) ==
    \E e1, e2 \in DOMAIN d.edges :
        e1 # e2 /\ d.edges[e1] \in {d.edges[e2], <<d.edges[e2][2], d.edges[e2][1]>>}

\* pyzx upair
upair(a, b) == IF a < b THEN <<a, b>> ELSE <<b, a>>

(***************************************************************************)
(* Red-green form: faulttools/web/red_green.py                              *)
(***************************************************************************)
\* _place_node_between: the new node is NextNode(d)
place_node_between(d, t, n1, n2) ==
    LET node == NextNode(d)
    IN add_edge(add_edge(remove_edge(add_node(d, t), n1, n2), n1, node), node, n2)

\* the loop of _euler_expand_edges over the node indices listed at its start
RECURSIVE euler_expand_edges_from(_, _, _, _)
euler_expand_edges_from(d, expanded_hadamards, order, i) ==
    IF i > Len(order) THEN [d |-> d, expanded_hadamards |-> expanded_hadamards]
    ELSE IF d.type[order[i]] # "H"
    THEN euler_expand_edges_from(d, expanded_hadamards, order, i + 1)
    ELSE
        LET v == order[i]
            v1 == neighbors(d, v)[1]
            v2 == neighbors(d, v)[2]
            d0 == add_edge(remove_node(d, v), v1, v2)
            flipped == d0.type[v1] = d0.type[v2] /\ d0.type[v1] = "X"
            pattern == IF flipped THEN <<"X", "Z", "X">> ELSE <<"Z", "X", "Z">>
            w2 == NextNode(d0)
            d1 == add_to_phase(place_node_between(d0, pattern[2], v1, v2), w2, 1)
            w1 == NextNode(d1)
            d2 == add_to_phase(place_node_between(d1, pattern[1], v1, w2), w1, 1)
            w3 == NextNode(d2)
            d3 == add_to_phase(place_node_between(d2, pattern[3], w2, v2), w3, 1)
        IN euler_expand_edges_from(
             d3,
             Append(expanded_hadamards,
                    [r1_node |-> w1, r2_node |-> w2, r3_node |-> w3, origin |-> v,
                     flipped_decomposition |-> flipped]),
             order, i + 1)

euler_expand_edges(d) == euler_expand_edges_from(d, <<>>, node_indices(d), 1)

\* _ensure_red_green, first loop: a node between two nodes of the same type
RECURSIVE ensure_same_type_from(_, _, _)
ensure_same_type_from(st, edges, i) ==
    IF i > Len(edges) THEN st
    ELSE LET s == edges[i][1]
             t == edges[i][2]
         IN IF st.d.type[s] = st.d.type[t]
            THEN ensure_same_type_from(
                   [d |-> place_node_between(
                            st.d, IF st.d.type[s] = "X" THEN "Z" ELSE "X", s, t),
                    new_nodes |-> Append(st.new_nodes, NextNode(st.d))],
                   edges, i + 1)
            ELSE ensure_same_type_from(st, edges, i + 1)

\* second loop: an X node between two boundaries that are still adjacent
RECURSIVE ensure_boundary_pairs_from(_, _, _)
ensure_boundary_pairs_from(st, edges, i) ==
    IF i > Len(edges) THEN st
    ELSE LET s == edges[i][1]
             t == edges[i][2]
         IN IF st.d.type[s] = st.d.type[t] /\ st.d.type[s] = "B"
            THEN ensure_boundary_pairs_from(
                   [d |-> place_node_between(st.d, "X", s, t),
                    new_nodes |-> Append(st.new_nodes, NextNode(st.d))],
                   edges, i + 1)
            ELSE ensure_boundary_pairs_from(st, edges, i + 1)

\* third loop: no boundary next to a red spider
RECURSIVE ensure_not_red_from(_, _, _)
ensure_not_red_from(st, boundaries, i) ==
    IF i > Len(boundaries) THEN st
    ELSE LET boundary == boundaries[i]
             neighbour == neighbors(st.d, boundary)[1]
         IN IF st.d.type[neighbour] = "X"
            THEN ensure_not_red_from(
                   [d |-> place_node_between(st.d, "Z", boundary, neighbour),
                    new_nodes |-> Append(st.new_nodes, NextNode(st.d))],
                   boundaries, i + 1)
            ELSE ensure_not_red_from(st, boundaries, i + 1)

\* a loop that places no node
ensure_nothing_from(st, boundaries, i) == st

\* fourth loop: no boundary next to a green spider with a phase or with
\* another boundary
RECURSIVE ensure_plain_green_from(_, _, _)
ensure_plain_green_from(st, boundaries, i) ==
    IF i > Len(boundaries) THEN st
    ELSE LET boundary == boundaries[i]
             neighbour == neighbors(st.d, boundary)[1]
             neighbour_boundaries ==
                 {v \in neighbor_set(st.d, neighbour) : st.d.type[v] = "B"}
         IN IF st.d.phase[neighbour] # 0 \/ Cardinality(neighbour_boundaries) > 1
            THEN LET new_x == NextNode(st.d)
                     d1 == place_node_between(st.d, "X", boundary, neighbour)
                     new_z == NextNode(d1)
                     d2 == place_node_between(d1, "Z", boundary, new_x)
                 IN ensure_plain_green_from(
                      [d |-> d2,
                       new_nodes |-> st.new_nodes \o <<new_x, new_z>>],
                      boundaries, i + 1)
            ELSE ensure_plain_green_from(st, boundaries, i + 1)

\* _ensure_red_green
ensure_red_green(d) ==
    LET last_loops(s2, boundaries) ==
            ensure_plain_green_from(ensure_not_red_from(s2, boundaries, 1),
                                    boundaries, 1)
        second_loop(s1) ==
            ensure_boundary_pairs_from(s1, edge_list(s1.d), 1)
        boundary_loops(s2) == last_loops(s2, boundary_nodes(s2.d))
    IN boundary_loops(second_loop(
         ensure_same_type_from([d |-> d, new_nodes |-> <<>>], edge_list(d), 1)))

\* to_red_green_form, for a Clifford diagram without parallel edges: the
\* diagram in red-green form and the AdditionalNodes
to_red_green_form(d) ==
    LET additional_nodes(h, g) ==
            [d |-> g.d, extra_id_nodes |-> g.new_nodes,
             expanded_hadamards |-> h.expanded_hadamards]
        expanded(h) == additional_nodes(h, ensure_red_green(h.d))
    IN expanded(euler_expand_edges(d))

\* dict.get(key, default), dict.pop(key, "")
Get(f, k, default) == IF k \in DOMAIN f THEN f[k] ELSE default

\* adj[a][b] = True, del adj[a][b] on the adjacency dict of remove_from,
\* each adj[a] being the list of its keys in insertion order
AdjAdd(adj, a, b) ==
    IF a \notin DOMAIN adj THEN Put(adj, a, <<b>>)
    ELSE IF b \in Range(adj[a]) THEN adj
    ELSE [adj EXCEPT ![a] = Append(@, b)]
AdjDel(adj, a, b) ==
    [adj EXCEPT ![a] = SelectSeq(@, LAMBDA x : x # b)]

\* AdditionalNodes._remove_extra_id_node on st = [adj, web]
remove_extra_id_node(st, node) ==
    LET v1 == st.adj[node][1]
        v2 == st.adj[node][2]
        web1 == Put(st.web, upair(v1, v2), Get(st.web, upair(v1, node), "I"))
        web2 == Del(Del(web1, upair(v1, node)), upair(node, v2))
        adj1 == AdjAdd(AdjAdd(st.adj, v1, v2), v2, v1)
        adj2 == AdjDel(AdjDel(AdjDel(AdjDel(adj1, v1, node), node, v1), node, v2),
                       v2, node)
    IN [adj |-> adj2, web |-> web2]

\* AdditionalNodes._remove_expanded_hadamard on st = [adj, web]
remove_expanded_hadamard(st, hadamard) ==
    LET w1 == hadamard.r1_node
        w2 == hadamard.r2_node
        w3 == hadamard.r3_node
        origin == hadamard.origin
        l == IF st.adj[w1][2] = w2 THEN st.adj[w1][1] ELSE st.adj[w1][2]
        r == IF st.adj[w3][1] = w2 THEN st.adj[w3][2] ELSE st.adj[w3][1]
        web1 == Put(st.web, upair(l, origin), Get(st.web, upair(l, w1), "I"))
        web2 == Put(web1, upair(origin, r), Get(web1, upair(r, w3), "I"))
        adj0 == IF origin \in DOMAIN st.adj THEN st.adj ELSE Put(st.adj, origin, <<>>)
        adj1 == AdjAdd(AdjAdd(AdjAdd(AdjAdd(adj0, l, origin), origin, l), origin, r),
                       r, origin)
        web3 == Del(Del(Del(Del(web2, upair(l, w1)), upair(w1, w2)), upair(w2, w3)),
                    upair(w3, r))
        adj2 == AdjDel(AdjDel(AdjDel(AdjDel(adj1, l, w1), w1, l), w1, w2), w2, w1)
        adj3 == AdjDel(AdjDel(AdjDel(AdjDel(adj2, w2, w3), w3, w2), w3, r), r, w3)
    IN [adj |-> adj3, web |-> web3]

RECURSIVE remove_extra_id_nodes_from(_, _, _)
remove_extra_id_nodes_from(st, nodes, i) ==
    IF i > Len(nodes) THEN st
    ELSE remove_extra_id_nodes_from(remove_extra_id_node(st, nodes[i]), nodes, i + 1)

RECURSIVE remove_expanded_hadamards_from(_, _, _)
remove_expanded_hadamards_from(st, hadamards, i) ==
    IF i > Len(hadamards) THEN st
    ELSE remove_expanded_hadamards_from(
           remove_expanded_hadamard(st, hadamards[i]), hadamards, i + 1)

\* AdditionalNodes.remove_from(d, web): the web after the removal
remove_from(additional_nodes, d, web) ==
    LET adj == [n1 \in DOMAIN d.type |-> neighbors(d, n1)]
        s1 == remove_extra_id_nodes_from([adj |-> adj, web |-> web],
                                         additional_nodes.extra_id_nodes, 1)
        s2 == remove_expanded_hadamards_from(
                s1, additional_nodes.expanded_hadamards, 1)
    IN s2.web

(***************************************************************************)
(* GF(2) matrices (galois.GF2): a matrix is a record with its rows, each    *)
(* row the set of the columns 1..ncols that hold a one.                     *)
(***************************************************************************)
Xor(a, b) == (a \ b) \cup (b \ a)

Matrix(rows, ncols) == [rows |-> rows, ncols |-> ncols]

\* FieldArray.row_reduce(ncols): reduced row echelon form over the first
\* ncols columns and the number p of pivots
RECURSIVE row_reduce_from(_, _, _, _)
row_reduce_from(A, j, p, ncols) ==
    IF j > ncols \/ p = Len(A) THEN [rows |-> A, p |-> p]
    ELSE LET idxs == {i \in (p + 1)..Len(A) : j \in A[i]}
         IN IF idxs = {} THEN row_reduce_from(A, j + 1, p, ncols)
            ELSE LET i == SetMin(idxs)
                     swapped == [A EXCEPT ![p + 1] = A[i], ![i] = A[p + 1]]
                     pivot_row == swapped[p + 1]
                     reduced == [r \in DOMAIN A |->
                                   IF r # p + 1 /\ j \in swapped[r]
                                   THEN Xor(swapped[r], pivot_row)
                                   ELSE swapped[r]]
                 IN row_reduce_from(reduced, j + 1, p + 1, ncols)

row_reduce(M) == Matrix(row_reduce_from(M.rows, 1, 0, M.ncols).rows, M.ncols)

\* FieldArray.transpose
transpose(M) ==
    Matrix([j \in 1..M.ncols |-> {i \in 1..Len(M.rows) : j \in M.rows[i]}],
           Len(M.rows))

SubSeqFrom(s, first) == [i \in 1..(Len(s) - first + 1) |-> s[first + i - 1]]

\* FieldArray.left_null_space: reduce [A | I] over the columns of A, keep the
\* identity part of the rows that became zero, and reduce that
left_null_space(M) ==
    LET m == Len(M.rows)
        n == M.ncols
        LN(rr) == [i \in 1..(m - rr.p) |->
                     {c - n : c \in {x \in rr.rows[rr.p + i] : x > n}}]
    IN row_reduce(Matrix(
         LN(row_reduce_from([i \in 1..m |-> M.rows[i] \cup {n + i}], 1, 0, n)), m))

\* FieldArray.null_space
null_space(M) == left_null_space(transpose(M))

\* a GF(2) combination of the rows of a matrix (one row of a product v @ M)
RECURSIVE combine(_, _)
combine(rows, sel) ==
    IF sel = {} THEN {}
    ELSE LET k == SetMin(sel) IN Xor(rows[k], combine(rows, sel \ {k}))

\* a product that leaves out the right factor
matmul_without_right(A, B) == Matrix(A.rows, B.ncols)

\* A @ B
matmul(A, B) == Matrix([i \in 1..Len(A.rows) |-> combine(B.rows, A.rows[i])], B.ncols)

(***************************************************************************)
(* Firing assignments: faulttools/web/firing_assignments.py                 *)
(***************************************************************************)
\* the keys of a dict built from a list of keys, in insertion order
RECURSIVE Dedupe(_)
Dedupe(s) ==
    IF s = <<>> THEN <<>>
    ELSE LET rest == Dedupe(SubSeq(s, 1, Len(s) - 1))
         IN IF s[Len(s)] \in Range(rest) THEN rest ELSE Append(rest, s[Len(s)])

\* determine_ordering: positions are 1-based here (ord(s) + 1 of the code)
determine_ordering(d) ==
    LET boundaries == boundary_nodes(d)
        z_keys == Dedupe([i \in 1..Len(boundaries) |-> neighbors(d, boundaries[i])[1]])
        z_boundaries ==
            [k \in Range(z_keys) |->
                SetMax({b \in Range(boundaries) : neighbors(d, b)[1] = k})]
        internal_set == (DOMAIN d.type \ Range(boundaries)) \ Range(z_keys)
        internal_spiders == SortedSeq(internal_set)
        pi_2_spiders == SelectSeq(internal_spiders, LAMBDA v : d.phase[v] % 2 = 1)
        plain == SortedSeq(internal_set \ Range(pi_2_spiders))
    IN [ordering_to_graph |-> z_keys \o plain \o pi_2_spiders,
        z_keys |-> z_keys,
        z_boundaries |-> z_boundaries,
        internal_spiders |-> internal_spiders,
        pi_2_spiders |-> pi_2_spiders]

\* GraphOrdering.ord (1-based)
ord(ordering, s) ==
    CHOOSE o \in DOMAIN ordering.ordering_to_graph : ordering.ordering_to_graph[o] = s

\* the identity block and the adjacency alone, whatever the phases
firing_verification_without_phases(d, ordering) ==
    LET num_z_boundaries == Len(ordering.z_keys)
        listed == ordering.ordering_to_graph
    IN Matrix([i \in DOMAIN listed |->
                 (IF i <= num_z_boundaries THEN {i} ELSE {})
                 \cup {num_z_boundaries + ord(ordering, v) :
                         v \in {n \in neighbor_set(d, listed[i]) : d.type[n] # "B"}}],
              Len(listed) + num_z_boundaries)

\* create_firing_verification
create_firing_verification(d, ordering) ==
    LET num_z_boundaries == Len(ordering.z_keys)
        num_non_boundary_spiders == num_z_boundaries + Len(ordering.internal_spiders)
        num_pi_2 == Len(ordering.pi_2_spiders)
        inner == {e \in DOMAIN d.edges :
                    d.type[d.edges[e][1]] # "B" /\ d.type[d.edges[e][2]] # "B"}
        between(i, j) ==
            {e \in inner :
               \/ ord(ordering, d.edges[e][1]) = i /\ ord(ordering, d.edges[e][2]) = j
               \/ ord(ordering, d.edges[e][1]) = j /\ ord(ordering, d.edges[e][2]) = i}
        adj_row(i) == {j \in 1..num_non_boundary_spiders :
                         i # j /\ Cardinality(between(i, j)) % 2 = 1}
        row(i) ==
            Xor((IF i <= num_z_boundaries THEN {i} ELSE {})
                \cup {num_z_boundaries + j : j \in adj_row(i)},
                IF i > num_non_boundary_spiders - num_pi_2
                THEN {num_z_boundaries + i} ELSE {})
    IN Matrix([i \in 1..num_non_boundary_spiders |-> row(i)],
              num_non_boundary_spiders + num_z_boundaries)

\* convert_firing_assignment_to_web, keyed by the endpoints of an edge as
\* _compute needs it: v is the set of the positions that hold a one
convert_firing_assignment_to_web_prototype(d, ordering, v) ==
    LET num_z_boundaries == Len(ordering.z_keys)
        fired == {ordering.ordering_to_graph[o] :
                    o \in {x \in DOMAIN ordering.ordering_to_graph :
                             x + num_z_boundaries \in v}}
        fired_out == {k \in Range(ordering.z_keys) : ord(ordering, k) \in v}
        keys == UNION {{upair(g, n) : n \in neighbor_set(d, g)} : g \in fired}
                \cup {upair(k, ordering.z_boundaries[k]) : k \in fired_out}
        spider_part(g) ==
            IF g \in fired /\ d.type[g] = "Z" THEN "X"
            ELSE IF g \in fired /\ d.type[g] = "X" THEN "Z"
            ELSE "I"
        out_part(e) ==
            IF \E k \in fired_out : upair(k, ordering.z_boundaries[k]) = e
            THEN "Z" ELSE "I"
    IN [e \in keys |->
          Pauli_mul(Pauli_mul(spider_part(e[1]), spider_part(e[2])), out_part(e))]

(***************************************************************************)
(* Web computation: faulttools/web/compute.py                               *)
(***************************************************************************)
\* to_pauli_string of _compute: the web on the edge indices of the diagram
to_pauli_string(dg, prototype) ==
    LET index(e) == SetMin(edge_indices_from_endpoints(dg, e[1], e[2]))
    IN PauliString([k \in {index(e) : e \in DOMAIN prototype} |->
                      prototype[CHOOSE e \in DOMAIN prototype : index(e) = k]])

\* the first column for every nonzero row instead of its first nonzero index
pivot_cols_all_first(M) ==
    LET nonzero == SelectSeq(M.rows, LAMBDA r : r # {})
    IN [i \in 1..Len(nonzero) |-> 1]

\* the first nonzero index of every nonzero row of a reduced matrix
pivot_cols(M) ==
    LET nonzero == SelectSeq(M.rows, LAMBDA r : r # {})
    IN [i \in 1..Len(nonzero) |-> SetMin(nonzero[i])]

\* _compute(diagram, stabilisers=True, detecting_regions=True)
compute_pauli_webs(dg) ==
    LET web(rg, ordering, v) ==
            to_pauli_string(
              dg,
              remove_from(rg, rg.d,
                          convert_firing_assignment_to_web_prototype(rg.d, ordering, v)))
        webs_of(rg, ordering, sols) ==
            [i \in 1..Len(sols) |-> web(rg, ordering, sols[i])]
        stab_sols(sol_row_basis, pivots) ==
            [i \in 1..Len(pivots) |-> sol_row_basis.rows[pivots[i]]]
        region_sols(sol_row_basis, boundary_nullspace_vectors) ==
            IF Len(boundary_nullspace_vectors.rows) = 0 THEN <<>>
            ELSE matmul(boundary_nullspace_vectors, sol_row_basis).rows
        selected(rg, ordering, sol_row_basis, boundary_selected_basis) ==
            [stabs |->
               webs_of(rg, ordering,
                       stab_sols(sol_row_basis,
                                 pivot_cols(row_reduce(boundary_selected_basis)))),
             regions |->
               webs_of(rg, ordering,
                       region_sols(sol_row_basis,
                                   null_space(boundary_selected_basis)))]
        solved(rg, ordering, sol_row_basis) ==
            selected(rg, ordering, sol_row_basis,
                     Matrix(SubSeq(transpose(sol_row_basis).rows, 1,
                                   Len(ordering.z_keys) * 2),
                            Len(sol_row_basis.rows)))
        ordered(rg, ordering) ==
            solved(rg, ordering, null_space(create_firing_verification(rg.d, ordering)))
        red_green(rg) == ordered(rg, determine_ordering(rg.d))
    IN red_green(to_red_green_form(dg))

(***************************************************************************)
(* build_flip_operators: faulttools/flip_operators.py                       *)
(***************************************************************************)
\* the assertion of build_flip_operators: boundary nodes and boundary edges
\* are allocated one-to-one
\* the first conjunct of the assertion alone
boundaries_have_one_edge(d) ==
    \A b \in {n \in DOMAIN d.type : d.type[n] = "B"} :
        Cardinality(incident_edges(d, b)) = 1

boundaries_one_to_one(d) ==
    \A b \in {n \in DOMAIN d.type : d.type[n] = "B"} :
        /\ Cardinality(incident_edges(d, b)) = 1
        /\ \A n \in neighbor_set(d, b) : d.type[n] # "B"

NoFlipOperators ==
    [ok |-> FALSE, stab_flip_ops |-> <<>>, region_flip_ops |-> <<>>,
     stab_gen_set |-> <<>>, region_gen_set |-> <<>>,
     region_flip_op_stab_flip_map |-> <<>>]

\* build_flip_operators(d): the FlipOperators it can return; ok is FALSE
\* when one of the assertions fails
build_flip_operators(d) ==
    IF ~boundaries_one_to_one(d) THEN {NoFlipOperators}
    ELSE
        LET built(s, r) ==
                IF ~s.ok \/ ~r.ok THEN NoFlipOperators
                ELSE [ok |-> TRUE,
                      stab_flip_ops |-> s.flip_ops,
                      region_flip_ops |-> r.flip_ops,
                      stab_gen_set |-> s.new_gen_set,
                      region_gen_set |-> r.new_gen_set,
                      region_flip_op_stab_flip_map |->
                          [i \in DOMAIN r.flip_ops |->
                              {j \in DOMAIN s.new_gen_set :
                                 ~commutes(r.flip_ops[i], s.new_gen_set[j])}]]
            for(webs) ==
                {built(s, r) : s \in flip_operators(webs.stabs, boundary_edges(d)),
                               r \in flip_operators(webs.regions, DOMAIN d.edges)}
        IN for(compute_pauli_webs(d))

(***************************************************************************)
(* Noise models and push-out: faulttools/noise/model.py, pushout.py.  A     *)
(* noise model is the list of the items (fault, values) of _atomic_faults   *)
(* in insertion order.                                                      *)
(***************************************************************************)
MaxFaultEdges == 2   \* edges in the support of the extra fault of a model

\* Fault(edge_flips, detector_flips)
Fault(edge_flips, detector_flips) ==
    [edge_flips |-> edge_flips, detector_flips |-> detector_flips]

\* Fault.edge_flip
Fault_edge_flip(edge_idx, p) == Fault(unary(edge_idx, p), {})

\* atomic_faults[fault].append(value) on the defaultdict(list)
RECURSIVE append_value(_, _, _)
append_value(atomic_faults, fault, value) ==
    IF atomic_faults = <<>> THEN <<<<fault, <<value>>>>>>
    ELSE IF Head(atomic_faults)[1] = fault
    THEN <<<<fault, Append(Head(atomic_faults)[2], value)>>>> \o Tail(atomic_faults)
    ELSE <<Head(atomic_faults)>> \o append_value(Tail(atomic_faults), fault, value)

\* NoiseModel.weighted_edge_flip_noise(diagram, w_x, w_y, w_z)
RECURSIVE weighted_edge_flip_noise_from(_, _, _, _, _, _)
weighted_edge_flip_noise_from(atomic_faults, edges, i, w_x, w_y, w_z) ==
    IF i > Len(edges) THEN atomic_faults
    ELSE weighted_edge_flip_noise_from(
           append_value(
             append_value(
               append_value(atomic_faults, Fault_edge_flip(edges[i], "X"), w_x),
               Fault_edge_flip(edges[i], "Y"), w_y),
             Fault_edge_flip(edges[i], "Z"), w_z),
           edges, i + 1, w_x, w_y, w_z)

weighted_edge_flip_noise(d, w_x, w_y, w_z) ==
    weighted_edge_flip_noise_from(<<>>, edge_indices(d), 1, w_x, w_y, w_z)

\* NoiseModel.num_faults
RECURSIVE num_faults(_)
num_faults(atomic_faults) ==
    IF atomic_faults = <<>> THEN 0
    ELSE Len(Head(atomic_faults)[2]) + num_faults(Tail(atomic_faults))

\* new_faults[new_fault] = values, dropping the list that was there
RECURSIVE extend_values_replacing(_, _, _)
extend_values_replacing(new_faults, new_fault, values) ==
    IF new_faults = <<>> THEN <<<<new_fault, values>>>>
    ELSE IF Head(new_faults)[1] = new_fault
    THEN <<<<new_fault, values>>>> \o Tail(new_faults)
    ELSE <<Head(new_faults)>> \o extend_values_replacing(Tail(new_faults), new_fault, values)

\* new_faults[new_fault].extend(values), creating the list when missing
RECURSIVE extend_values(_, _, _)
extend_values(new_faults, new_fault, values) ==
    IF new_faults = <<>> THEN <<<<new_fault, values>>>>
    ELSE IF Head(new_faults)[1] = new_fault
    THEN <<<<new_fault, Head(new_faults)[2] \o values>>>> \o Tail(new_faults)
    ELSE <<Head(new_faults)>> \o extend_values(Tail(new_faults), new_fault, values)

\* _transform of push_out
push_out_transform(fault, fo) ==
    LET atomic_fault_flips == fault.edge_flips
        \* the regions are numbered from 0 in the code
        flipped_regions ==
            {r \in 0..(Len(fo.region_gen_set) - 1) :
               ~commutes(atomic_fault_flips, fo.region_gen_set[r + 1])}
        orig_flipped_stabs ==
            {i \in DOMAIN fo.stab_gen_set :
               ~commutes(atomic_fault_flips, fo.stab_gen_set[i])}
        curr_flipped_stabs(regions_flipped) ==
            {j \in DOMAIN fo.stab_gen_set :
               Cardinality({r \in regions_flipped :
                              j \in fo.region_flip_op_stab_flip_map[r + 1]}) % 2 = 1}
        new_fault_edge_flips(orig, curr) ==
            PauliString_mul(product(fo.stab_flip_ops, orig \ curr),
                            product(fo.stab_flip_ops, curr \ orig))
        new_fault(regions_flipped) ==
            Fault(new_fault_edge_flips(orig_flipped_stabs,
                                       curr_flipped_stabs(regions_flipped)),
                  fault.detector_flips \cup regions_flipped)
    IN new_fault(flipped_regions)

\* NoiseModel.transform_faults with the transform of push_out
RECURSIVE transform_faults_from(_, _, _, _)
transform_faults_from(new_faults, atomic_faults, i, fo) ==
    IF i > Len(atomic_faults) THEN new_faults
    ELSE transform_faults_from(
           extend_values(new_faults, push_out_transform(atomic_faults[i][1], fo),
                         atomic_faults[i][2]),
           atomic_faults, i + 1, fo)

\* push_out(model, flip_ops)
push_out(atomic_faults, fo) == transform_faults_from(<<>>, atomic_faults, 1, fo)

\* The webs over the edges of a diagram with at most MaxFaultEdges edges in
\* their support
FaultFlips(d) ==
    UNION {[S -> {"X", "Y", "Z"}] :
             S \in {T \in SUBSET DOMAIN d.edges : Cardinality(T) <= MaxFaultEdges}}

(***************************************************************************)
(* Webs through partitions: faulttools/web/partitions.py                    *)
(***************************************************************************)
MaxParts == 2        \* partitions handed to pauli_webs_through_partitions

\* Diagram.subgraph(part): the induced diagram, its nodes numbered in the
\* order of part, with the map from its nodes to the nodes of d
subgraph(d, part) ==
    LET node_map == [sn \in 0..(Len(part) - 1) |-> part[sn + 1]]
        reverse(n) == CHOOSE sn \in DOMAIN node_map : node_map[sn] = n
        kept == SelectSeq(edge_indices(d),
                          LAMBDA e : d.edges[e][1] \in Range(part)
                                     /\ d.edges[e][2] \in Range(part))
    IN [d |-> [type |-> [sn \in DOMAIN node_map |-> d.type[node_map[sn]]],
               phase |-> [sn \in DOMAIN node_map |-> d.phase[node_map[sn]]],
               edges |-> [se \in 0..(Len(kept) - 1) |->
                            <<reverse(d.edges[kept[se + 1]][1]),
                              reverse(d.edges[kept[se + 1]][2])>>],
               free_nodes |-> <<>>,
               free_edges |-> <<>>],
        node_map |-> node_map]

\* the edges of d that leave part, node by node of part, each listed with
\* its node: Diagram.incident_edge_index_map filtered by "other in part"
RECURSIVE cut_edges_of(_, _, _)
cut_edges_of(d, part, i) ==
    IF i > Len(part) THEN <<>>
    ELSE LET node == part[i]
             leaving == {e \in incident_edges(d, node) :
                           (IF d.edges[e][1] = node THEN d.edges[e][2]
                            ELSE d.edges[e][1]) \notin Range(part)}
             listed == SortedSeq(leaving)
         IN [k \in 1..Len(listed) |-> [node |-> node, edge |-> listed[k]]]
            \o cut_edges_of(d, part, i + 1)

\* Diagram.realize_io on a diagram with virtual outputs: one new boundary
\* per output, then one edge per output
RECURSIVE add_boundaries(_, _)
add_boundaries(d, k) == IF k = 0 THEN d ELSE add_boundaries(add_node(d, "B"), k - 1)

RECURSIVE add_output_edges(_, _, _, _)
add_output_edges(d, outputs, new_outputs, i) ==
    IF i > Len(outputs) THEN d
    ELSE add_output_edges(add_edge(d, outputs[i], new_outputs[i]),
                          outputs, new_outputs, i + 1)

realize_io(d, outputs) ==
    LET first == Cardinality(DOMAIN d.type)
        new_outputs == [i \in 1..Len(outputs) |-> first + i - 1]
    IN [d |-> add_output_edges(add_boundaries(d, Len(outputs)), outputs,
                               new_outputs, 1),
        new_outputs |-> new_outputs]

\* the body of "for part in partitions": the subgraph with real IO, its
\* edge_map and the cut edges in the order of tracker.inc_edges; ok is FALSE
\* when set_io raises the ValueError for duplicate IO nodes
extract_partition(d, part) ==
    LET sg == subgraph(d, part)
        cuts == cut_edges_of(d, part, 1)
        reverse(n) == CHOOSE sn \in DOMAIN sg.node_map : sg.node_map[sn] = n
        io_nodes == [k \in 1..Len(cuts) |-> reverse(cuts[k].node)]
        duplicate == Cardinality(Range(io_nodes)) # Len(io_nodes)
        inner == [se \in DOMAIN sg.d.edges |->
                    SetMin(edge_indices_from_endpoints(
                             d, sg.node_map[sg.d.edges[se][1]],
                             sg.node_map[sg.d.edges[se][2]]))]
        real == realize_io(sg.d, io_nodes)
        outer == [se \in {SetMin(incident_edges(real.d, real.new_outputs[k])) :
                            k \in 1..Len(cuts)} |->
                    cuts[CHOOSE k \in 1..Len(cuts) :
                           SetMin(incident_edges(real.d, real.new_outputs[k])) = se].edge]
    IN IF duplicate
       THEN [ok |-> FALSE, d |-> sg.d, edge_map |-> inner, inc_edges |-> <<>>]
       ELSE [ok |-> TRUE, d |-> real.d,
             edge_map |-> [se \in DOMAIN inner \cup DOMAIN outer |->
                             IF se \in DOMAIN outer THEN outer[se] ELSE inner[se]],
             inc_edges |-> [k \in 1..Len(cuts) |-> cuts[k].edge]]

\* _find_webs
map_web(web, edge_map) ==
    PauliString([e \in {edge_map[x] : x \in DOMAIN web} |->
                   web[CHOOSE x \in DOMAIN web : edge_map[x] = e]])
find_webs(sg, edge_map) ==
    LET mapped(webs) ==
            [stabs |-> [i \in DOMAIN webs.stabs |-> map_web(webs.stabs[i], edge_map)],
             regions |-> [i \in DOMAIN webs.regions |->
                            map_web(webs.regions[i], edge_map)]]
    IN mapped(compute_pauli_webs(sg))

\* s.restrict(edges).compile(idx_map) as a matrix row over 2 * len(edges)
\* columns, edges the list whose positions make idx_map
compiled_row(web, edges) ==
    LET idx_map == [e \in Range(edges) |-> (CHOOSE i \in DOMAIN edges : edges[i] = e) - 1]
    IN {c + 1 : c \in compile(restrict(web, Range(edges)), idx_map)}

\* the web of one solution of _zip_webs
zipped_web(solution, cur_stabs, next_stabs, zipped_edges) ==
    LET cur_part == product(cur_stabs, {i \in DOMAIN cur_stabs : i \in solution})
        shared_edges == restrict(cur_part, Range(zipped_edges))
        next_part == product(next_stabs,
                             {i \in DOMAIN next_stabs : Len(cur_stabs) + i \in solution})
    IN PauliString_mul(PauliString_mul(cur_part, next_part), shared_edges)

\* _zip_webs; ok is FALSE when the AssertionError is raised
zip_webs(cur_stabs, next_stabs, zipped_edges, new_boundaries) ==
    IF Len(cur_stabs) = 0 /\ Len(next_stabs) = 0
    THEN [ok |-> TRUE, stabs |-> <<>>, regions |-> <<>>]
    ELSE
        LET both == cur_stabs \o next_stabs
            all_compiled ==
                transpose(Matrix([i \in DOMAIN both |-> compiled_row(both[i], zipped_edges)],
                                 2 * Len(zipped_edges)))
            all_boundary_compiled ==
                Matrix([i \in DOMAIN both |-> compiled_row(both[i], new_boundaries)],
                       2 * Len(new_boundaries))
            closed(web) == is_trivial(restrict(web, Range(new_boundaries)))
            classified(webs) ==
                [ok |-> Len(SelectSeq(webs, LAMBDA web : ~closed(web)))
                          = Len(new_boundaries),
                 stabs |-> SelectSeq(webs, LAMBDA web : ~closed(web)),
                 regions |-> SelectSeq(webs, closed)]
            extracted(solutions_basis_changed) ==
                classified([i \in 1..Len(solutions_basis_changed.rows) |->
                              zipped_web(solutions_basis_changed.rows[i], cur_stabs,
                                         next_stabs, zipped_edges)])
            basis_change(reduced, num, width) ==
                Matrix([i \in 1..num |->
                          {c - width : c \in {x \in reduced.rows[i] : x > width}}],
                       num)
            stacked(boundary_solutions, num, width) ==
                Matrix([i \in 1..num |-> boundary_solutions.rows[i] \cup {width + i}],
                       width + num)
            changed(solutions, boundary_solutions) ==
                extracted(matmul(
                  basis_change(
                    row_reduce(stacked(boundary_solutions, Len(boundary_solutions.rows),
                                       boundary_solutions.ncols)),
                    Len(boundary_solutions.rows), boundary_solutions.ncols),
                  solutions))
            matched(solutions) ==
                changed(solutions, matmul(solutions, all_boundary_compiled))
        IN matched(null_space(all_compiled))

\* The zip loop of pauli_webs_through_partitions.  trackers[k] is the dict
\* inc_edges of partition k as a list of [edge, to] items, to = 0 for None;
\* main is the dict of the main tracker.
RECURSIVE zip_all(_, _, _, _, _)
zip_all(cur_stabs, cur_regions, main, trackers, webs) ==
    IF \A k \in DOMAIN main : main[k].to = 0
    THEN [ok |-> TRUE, stabs |-> cur_stabs, regions |-> cur_regions]
    ELSE
        LET neighbour == main[SetMin({k \in DOMAIN main : main[k].to # 0})].to
            to_neighbour == SelectSeq(main, LAMBDA it : it.to = neighbour)
            edges_to_neighbour == [k \in DOMAIN to_neighbour |-> to_neighbour[k].edge]
            zipped == Range(edges_to_neighbour)
            kept == SelectSeq(main, LAMBDA it : it.edge \notin zipped)
            added == SelectSeq(trackers[neighbour], LAMBDA it : it.edge \notin zipped)
            merged ==
                [k \in DOMAIN kept |->
                   IF \E a \in Range(added) : a.edge = kept[k].edge
                   THEN CHOOSE a \in Range(added) : a.edge = kept[k].edge
                   ELSE kept[k]]
                \o SelectSeq(added, LAMBDA a : \A k \in DOMAIN kept : kept[k].edge # a.edge)
            continued(zip, inc_edges) ==
                IF ~zip.ok THEN [ok |-> FALSE, stabs |-> <<>>, regions |-> <<>>]
                ELSE zip_all(zip.stabs,
                             cur_regions \o webs[neighbour].regions \o zip.regions,
                             inc_edges, trackers, webs)
            zipped_with(inc_edges) ==
                continued(zip_webs(cur_stabs, webs[neighbour].stabs, edges_to_neighbour,
                                   [k \in DOMAIN inc_edges |-> inc_edges[k].edge]),
                          inc_edges)
        IN zipped_with(merged)

\* tracker.inc_edges of every partition after the extraction loop: the
\* tracker on the other side of an edge cut by two partitions, 0 (None)
\* for an edge that leaves for a boundary
trackers_of(parts) ==
    [k \in DOMAIN parts |->
       [i \in DOMAIN parts[k].inc_edges |->
          [edge |-> parts[k].inc_edges[i],
           to |-> IF \E o \in DOMAIN parts :
                       o # k /\ parts[k].inc_edges[i] \in Range(parts[o].inc_edges)
                  THEN CHOOSE o \in DOMAIN parts :
                         o # k /\ parts[k].inc_edges[i] \in Range(parts[o].inc_edges)
                  ELSE 0]]]

\* pauli_webs_through_partitions(d, partitions) for a diagram with real IO
\* and a non-empty list of disjoint partitions that allocate every node
pauli_webs_through_partitions(d, ps) ==
    LET zipped(webs, trackers) ==
            zip_all(webs[1].stabs, webs[1].regions, trackers[1], trackers, webs)
        extracted(parts) ==
            IF \E k \in DOMAIN parts : ~parts[k].ok
            THEN [ok |-> FALSE, stabs |-> <<>>, regions |-> <<>>]
            ELSE zipped([k \in DOMAIN parts |-> find_webs(parts[k].d, parts[k].edge_map)],
                        trackers_of(parts))
    IN extracted([k \in DOMAIN ps |-> extract_partition(d, ps[k])])

\* The partitions explored: the non-boundary nodes dealt to at most MaxParts
\* non-empty lists, each in ascending order
Partitionings(d) ==
    LET inner == {n \in DOMAIN d.type : d.type[n] # "B"}
        deals == UNION {[inner -> 1..k] : k \in 1..MaxParts}
        blocks(f) == [b \in 1..SetMax({f[n] : n \in inner}) |->
                        SortedSeq({n \in inner : f[n] = b})]
    IN {blocks(f) : f \in {g \in deals : inner # {}
                             /\ {g[n] : n \in inner} = 1..SetMax({g[n] : n \in inner})}}

(***************************************************************************)
(* The diagrams explored: boundaries first, then the spiders and H boxes;   *)
(* every boundary has one edge, every H box two, no parallel edges, edges   *)
(* indexed in lexicographic order of their endpoints.                       *)
(***************************************************************************)
Kinds == {<<"Z", 0>>, <<"Z", 1>>, <<"Z", 2>>, <<"X", 0>>, <<"X", 1>>, <<"H", 0>>}

NodePairs(n) == {p \in (0..(n - 1)) \X (0..(n - 1)) : p[1] < p[2]}

RECURSIVE PairSeq(_, _)
PairSeq(S, n) ==
    IF S = {} THEN <<>>
    ELSE LET m == CHOOSE p \in S : \A q \in S : p[1] * n + p[2] <= q[1] * n + q[2]
         IN <<m>> \o PairSeq(S \ {m}, n)

DiagramOf(num_b, kinds, pairs) ==
    LET n == num_b + Cardinality(DOMAIN kinds)
        listed == PairSeq(pairs, n)
    IN [type |-> [v \in 0..(n - 1) |-> IF v < num_b THEN "B" ELSE kinds[v][1]],
        phase |-> [v \in 0..(n - 1) |-> IF v < num_b THEN 0 ELSE kinds[v][2]],
        edges |-> [e \in 0..(Len(listed) - 1) |-> listed[e + 1]],
        free_nodes |-> <<>>,
        free_edges |-> <<>>]

WellFormed(d) ==
    \A v \in DOMAIN d.type :
        /\ d.type[v] = "B" => Cardinality(incident_edges(d, v)) = 1
        /\ d.type[v] = "H" => Cardinality(incident_edges(d, v)) = 2

Diagrams ==
    UNION {UNION {UNION {{d \in {DiagramOf(num_b, kinds, pairs) :
                                   pairs \in SUBSET NodePairs(num_b + num_s)} :
                            WellFormed(d)} :
                         kinds \in [num_b..(num_b + num_s - 1) -> Kinds]} :
                  num_s \in (IF num_b = 0 THEN 1 ELSE 0)..MaxSpiders} :
           num_b \in 0..MaxBoundaries}

\* diagrams that allocate a boundary no edge or several: up to
\* MaxBoundaries boundaries and one spider, any set of edges
MalformedDiagrams ==
    UNION {UNION {UNION {{d \in {DiagramOf(num_b, kinds, pairs) :
                                   pairs \in SUBSET NodePairs(num_b + num_s)} :
                            ~WellFormed(d)} :
                         kinds \in [num_b..(num_b + num_s - 1) -> {<<"Z", 0>>, <<"X", 1>>}]} :
                  num_s \in 0..1} :
           num_b \in 1..MaxBoundaries}

WebInit ==
    /\ diagram \in Diagrams
    /\ hash_desc \in BOOLEAN
    /\ stabs = <<>>
    /\ regions = <<>>
    /\ partitions = <<>>
    /\ part_webs = <<>>
    /\ flips = <<>>
    /\ model = <<>>
    /\ pushed = <<>>
    /\ repushed = <<>>
    /\ wpc = "start"
    /\ EnumIdle
    /\ FlipIdle
    /\ PauliIdle
    /\ EquivIdle
    /\ RedGreenIdle
    /\ StimIdle

\* compute_pauli_webs(diagram)
ComputePauliWebs ==
    /\ wpc = "start"
    /\ LET webs == compute_pauli_webs(diagram)
       IN /\ stabs' = webs.stabs
          /\ regions' = webs.regions
    /\ wpc' = "webs"
    /\ UNCHANGED <<diagram, hash_desc, partitions, part_webs, flips, model,
                   pushed, repushed>>
    /\ UNCHANGED NotWeb

\* pauli_webs_through_partitions(diagram, partitions=...), called next to
\* compute_pauli_webs on the same diagram
PauliWebsThroughPartitions ==
    /\ wpc = "webs"
    /\ \E ps \in Partitionings(diagram) :
         /\ partitions' = ps
         /\ part_webs' = pauli_webs_through_partitions(diagram, ps)
    /\ wpc' = "partitioned"
    /\ UNCHANGED <<diagram, hash_desc, stabs, regions, flips, model, pushed,
                   repushed>>
    /\ UNCHANGED NotWeb

WebNext == ComputePauliWebs \/ PauliWebsThroughPartitions

SpecWeb == WebInit /\ [][WebNext]_vars

\* the webs of a diagram have been computed
WebsComputed == wpc \in {"webs", "partitioned"}

\* b1 - z - b2: two boundaries joined through one Z spider of phase 0
IdentityDiagram == DiagramOf(2, (2 :> <<"Z", 0>>), {<<0, 2>>, <<1, 2>>})

\* C7: on b1 - z - b2, compute_pauli_webs returns two stabilisers that span
\* the group of XX and ZZ over the two boundary edges, and no detecting
\* region.
C7_IdentityWebs ==
    (WebsComputed /\ diagram = IdentityDiagram) =>
        /\ Len(stabs) = 2
        /\ Span(stabs) = Span(<<(0 :> "X") @@ (1 :> "X"), (0 :> "Z") @@ (1 :> "Z")>>)
        /\ regions = <<>>

C7_Witness == wpc = "webs" /\ diagram = IdentityDiagram /\ Len(stabs) = 2

\* C8: for every partition of the non-boundary nodes,
\* pauli_webs_through_partitions returns webs that span the same space of
\* detecting regions and the same space of all webs as compute_pauli_webs.
C8_PartitionsAgree ==
    wpc = "partitioned" =>
        /\ part_webs.ok
        /\ Span(part_webs.regions) = Span(regions)
        /\ Span(part_webs.stabs \o part_webs.regions) = Span(stabs \o regions)

\* The Pauli webs of a diagram: at a Z spider the X component sits on all
\* legs or on none, and the number of legs with a Z component is odd exactly
\* when the X component is there and the phase is an odd multiple of pi/2;
\* an X spider is the same with X and Z exchanged; an H box carries X on one
\* leg exactly when it carries Z on the other.
HasX(web, e) == e \in DOMAIN web /\ web[e] \in {"X", "Y"}
HasZ(web, e) == e \in DOMAIN web /\ web[e] \in {"Z", "Y"}
ValidAt(d, web, v) ==
    LET legs == incident_edges(d, v)
        own(e) == IF d.type[v] = "Z" THEN HasX(web, e) ELSE HasZ(web, e)
        other(e) == IF d.type[v] = "Z" THEN HasZ(web, e) ELSE HasX(web, e)
        fired == \E e \in legs : own(e)
        odd == Cardinality({e \in legs : other(e)}) % 2 = 1
    IN CASE d.type[v] = "B" -> TRUE
         [] d.type[v] = "H" ->
              \A e1, e2 \in legs :
                  e1 # e2 => (HasX(web, e1) <=> HasZ(web, e2))
         [] OTHER ->
              /\ fired => \A e \in legs : own(e)
              /\ odd <=> (fired /\ d.phase[v] % 2 = 1)
ValidWeb(d, web) == \A v \in DOMAIN d.type : ValidAt(d, web, v)
AllWebs(d) == UNION {[S -> {"X", "Y", "Z"}] : S \in SUBSET DOMAIN d.edges}

\* C9: every detecting region of compute_pauli_webs is a Pauli web that is
\* trivial on the boundary edges, and every Pauli web of the diagram that is
\* trivial on the boundary edges is a product of the returned regions.
C9_RegionsAreClosedWebs ==
    WebsComputed =>
        /\ \A i \in DOMAIN regions :
              /\ is_trivial(restrict(regions[i], boundary_edges(diagram)))
              /\ ValidWeb(diagram, regions[i])
        /\ \A web \in AllWebs(diagram) :
              (ValidWeb(diagram, web)
               /\ is_trivial(restrict(web, boundary_edges(diagram))))
                  => web \in Span(regions)

C9_Witness ==
    /\ wpc = "webs"
    /\ boundary_edges(diagram) # {}
    /\ \E i \in DOMAIN regions : ~is_trivial(regions[i])
    /\ \E web \in AllWebs(diagram) :
          ValidWeb(diagram, web) /\ ~is_trivial(restrict(web, boundary_edges(diagram)))

\* C10: on a diagram without parallel edges no non-empty product of the
\* returned stabilisers is trivial, and no non-empty product of the returned
\* detecting regions is trivial.
C10_WebsIndependent ==
    (WebsComputed /\ ~has_parallel_edges(diagram)) =>
        /\ Independent(stabs, DOMAIN diagram.edges)
        /\ Independent(regions, DOMAIN diagram.edges)

(***************************************************************************)
(* Pushing the faults of a noise model out to the boundary of a diagram.    *)
(***************************************************************************)
PushInit ==
    /\ diagram \in Diagrams \cup MalformedDiagrams
    /\ hash_desc \in BOOLEAN
    /\ stabs = <<>>
    /\ regions = <<>>
    /\ partitions = <<>>
    /\ part_webs = <<>>
    /\ flips = <<>>
    /\ model = <<>>
    /\ pushed = <<>>
    /\ repushed = <<>>
    /\ wpc = "diagram"
    /\ EnumIdle
    /\ FlipIdle
    /\ PauliIdle
    /\ EquivIdle
    /\ RedGreenIdle
    /\ StimIdle

\* build_flip_operators(diagram)
BuildFlipOperators ==
    /\ wpc = "diagram"
    /\ \E fo \in build_flip_operators(diagram) :
         /\ flips' = fo
         /\ wpc' = IF fo.ok THEN "flipops" ELSE "raised"
    /\ UNCHANGED <<diagram, hash_desc, stabs, regions, partitions, part_webs,
                   model, pushed, repushed>>
    /\ UNCHANGED NotWeb

\* push_out(model, flips) for the weighted edge flip noise of the diagram
\* with one more fault, on several edges or with a detector of its own
PushOut ==
    /\ wpc = "flipops"
    /\ \E edge_flips \in FaultFlips(diagram), detector_flips \in {{}, {0}} :
         model' = append_value(weighted_edge_flip_noise(diagram, 1, 2, 3),
                               Fault(edge_flips, detector_flips), 4)
    /\ pushed' = push_out(model', flips)
    /\ wpc' = "pushed"
    /\ UNCHANGED <<diagram, hash_desc, stabs, regions, partitions, part_webs,
                   flips, repushed>>
    /\ UNCHANGED NotWeb

\* push_out(pushed, flips): a later stage pushes the same model out again
PushOutAgain ==
    /\ wpc = "pushed"
    /\ repushed' = push_out(pushed, flips)
    /\ wpc' = "repushed"
    /\ UNCHANGED <<diagram, hash_desc, stabs, regions, partitions, part_webs,
                   flips, model, pushed>>
    /\ UNCHANGED NotWeb

PushNext == BuildFlipOperators \/ PushOut \/ PushOutAgain

SpecPush == PushInit /\ [][PushNext]_vars

\* the flip signature of a fault: the stabiliser generators that its edge
\* flips anticommute with, and its detector flips united with the region
\* generators that its edge flips anticommute with
flipped_stabs(fault, fo) ==
    {i \in 0..(Len(fo.stab_gen_set) - 1) :
       ~commutes(fault.edge_flips, fo.stab_gen_set[i + 1])}
flipped_detectors(fault, fo) ==
    fault.detector_flips
    \cup {r \in 0..(Len(fo.region_gen_set) - 1) :
            ~commutes(fault.edge_flips, fo.region_gen_set[r + 1])}

\* C2: every atomic fault of the model and its image under push_out flip
\* the same stabiliser generators and the same detectors.
C2_PushOutKeepsSignature ==
    wpc \in {"pushed", "repushed"} =>
        \A i \in DOMAIN model :
            LET f == model[i][1]
                g == push_out_transform(f, flips)
            IN /\ flipped_stabs(f, flips) = flipped_stabs(g, flips)
               /\ flipped_detectors(f, flips) = flipped_detectors(g, flips)

\* C4: the push-out transform returns every fault of a pushed-out model
\* unchanged, so pushing out again gives the same model.
C4_PushOutIdempotent ==
    wpc = "repushed" =>
        /\ \A i \in DOMAIN pushed :
              push_out_transform(pushed[i][1], flips) = pushed[i][1]
        /\ repushed = pushed

\* C5: the edge flips of every fault of a pushed-out model lie on boundary
\* edges of the diagram.
C5_PushedToBoundary ==
    wpc \in {"pushed", "repushed"} =>
        \A i \in DOMAIN pushed :
            DOMAIN pushed[i][1].edge_flips \subseteq boundary_edges(diagram)

C5_Witness ==
    /\ wpc = "pushed"
    /\ \E i \in DOMAIN model :
          /\ Cardinality(DOMAIN model[i][1].edge_flips) = 2
          /\ ~(DOMAIN model[i][1].edge_flips \subseteq boundary_edges(diagram))
          /\ push_out_transform(model[i][1], flips).edge_flips # EmptyPauliString

\* the value lists of the input faults with a given image, one after the
\* other
RECURSIVE values_mapped_to(_, _, _, _)
values_mapped_to(images, atomic_faults, i, new_fault) ==
    IF i > Len(atomic_faults) THEN <<>>
    ELSE (IF images[i] = new_fault THEN atomic_faults[i][2] ELSE <<>>)
         \o values_mapped_to(images, atomic_faults, i + 1, new_fault)

\* how often a value is attached to the faults of a model
RECURSIVE occurrences(_, _)
occurrences(atomic_faults, value) ==
    IF atomic_faults = <<>> THEN 0
    ELSE Cardinality({k \in DOMAIN Head(atomic_faults)[2] :
                        Head(atomic_faults)[2][k] = value})
         + occurrences(Tail(atomic_faults), value)

\* C6: push_out keeps the number of atomic entries and the multiset of the
\* attached values, and the value list of a pushed-out fault is the
\* concatenation of the value lists of the input faults mapped to it.
C6_PushOutKeepsEntries ==
    wpc = "pushed" =>
        /\ num_faults(pushed) = num_faults(model)
        /\ \A value \in 1..4 : occurrences(pushed, value) = occurrences(model, value)
        /\ LET images == [i \in DOMAIN model |-> push_out_transform(model[i][1], flips)]
           IN \A k \in DOMAIN pushed :
                 pushed[k][2] = values_mapped_to(images, model, 1, pushed[k][1])
        /\ \A k1, k2 \in DOMAIN pushed : k1 # k2 => pushed[k1][1] # pushed[k2][1]

C6_Witness ==
    /\ wpc = "pushed"
    /\ \E k \in DOMAIN pushed : Len(pushed[k][2]) >= 2
    /\ Len(pushed) >= 2


(***************************************************************************)
(* Fault equivalence: faulttools/equivalence/check_fault_equivalence.py.    *)
(* A compiled fault is the set of the columns 1..length that hold a one.    *)
(***************************************************************************)
\* Fault.is_trivial
Fault_is_trivial(fault) ==
    fault.detector_flips = {} /\ is_trivial(fault.edge_flips)

\* a compilation that puts the detector columns first
Fault_compile_detectors_first(fault, edge_idx_map, detector_idx_map) ==
    LET num_edges == Cardinality(DOMAIN edge_idx_map)
        num_detectors == Cardinality(DOMAIN detector_idx_map)
        ef == fault.edge_flips
    IN {detector_idx_map[t] + 1 : t \in fault.detector_flips}
       \cup {edge_idx_map[e] + num_detectors + 1 :
               e \in {k \in DOMAIN ef : ef[k] \in {"Z", "Y"}}}
       \cup {edge_idx_map[e] + num_detectors + num_edges + 1 :
               e \in {k \in DOMAIN ef : ef[k] \in {"X", "Y"}}}

\* Fault.compile
Fault_compile(fault, edge_idx_map, detector_idx_map) ==
    LET num_edges == Cardinality(DOMAIN edge_idx_map)
        ef == fault.edge_flips
    IN {edge_idx_map[e] + 1 : e \in {k \in DOMAIN ef : ef[k] \in {"Z", "Y"}}}
       \cup {edge_idx_map[e] + num_edges + 1 :
               e \in {k \in DOMAIN ef : ef[k] \in {"X", "Y"}}}
       \cup {detector_idx_map[t] + 2 * num_edges + 1 : t \in fault.detector_flips}

\* Fault.compiled_to_int: the first column is the most significant bit
RECURSIVE compiled_to_int(_, _)
compiled_to_int(compiled, length) ==
    IF length = 0 THEN 0
    ELSE 2 * compiled_to_int(compiled, length - 1)
         + (IF length \in compiled THEN 1 ELSE 0)

\* _stabilisers and Stabilisers.__init__: the boundary restrictions of the
\* stabilisers as the rows of a matrix, row-reduced, with the argmax of each
\* row (the column of its first one counted from 0, and 0 for a zero row)
stabilisers_of(stabilisers, boundary_idx_map) ==
    LET num_boundaries == Cardinality(DOMAIN boundary_idx_map)
        row(stab) ==
            {boundary_idx_map[e] + 1 : e \in {k \in DOMAIN stab : stab[k] \in {"Z", "Y"}}}
            \cup {boundary_idx_map[e] + num_boundaries + 1 :
                    e \in {k \in DOMAIN stab : stab[k] \in {"X", "Y"}}}
        with_indices(M) ==
            [rref |-> M,
             indices |-> [i \in DOMAIN M.rows |->
                            IF M.rows[i] = {} THEN 0 ELSE SetMin(M.rows[i]) - 1]]
    IN with_indices(row_reduce(Matrix(
         [i \in DOMAIN stabilisers |->
            row(restrict(stabilisers[i], DOMAIN boundary_idx_map))],
         2 * num_boundaries)))

\* AugmentedStabilisers.from_stabilisers
from_stabilisers(st, num_sinks) ==
    [rref |-> Matrix(st.rref.rows, st.rref.ncols + num_sinks), indices |-> st.indices]

\* a normalisation that returns the compiled fault as it is
normalise_nothing(aug, compiled_fault) == compiled_fault

\* AugmentedStabilisers.normalise_single:
\* compiled_fault + compiled_fault[indices] @ rref
normalise(aug, compiled_fault) ==
    Xor(compiled_fault,
        combine(aug.rref.rows,
                {i \in DOMAIN aug.indices : aug.indices[i] + 1 \in compiled_fault}))

\* _compile_atomic_faults: the distinct normalised compiled faults
compile_atomic_faults(noise, aug, boundaries_to_idx, detector_to_idx) ==
    {normalise(aug, Fault_compile(noise[i][1], boundaries_to_idx, detector_to_idx)) :
       i \in {k \in DOMAIN noise : ~Fault_is_trivial(noise[k][1])}}

\* {d.incident_edges(b)[0]: i for i, b in enumerate(sorted(d.boundary_nodes()))}:
\* a later boundary on the same edge replaces the entry of an earlier one
first_incident_edge(d, b) == SetMin(incident_edges(d, b))

boundary_idx_map(d) ==
    [e \in {first_incident_edge(d, b) : b \in Range(boundary_nodes(d))} |->
       SetMax({i \in 0..(Len(boundary_nodes(d)) - 1) :
                 first_incident_edge(d, boundary_nodes(d)[i + 1]) = e})]

\* _smallest_size_iteration(g1_sig_nf, g2_sig_nf, g1_sinks, g2_boundaries,
\* g2_sinks): the size-by-size search on the signatures as integers, every one
\* of weight 1
smallest_size_iteration(g1_sig_nf, g2_sig_nf, g1_length, g2_length, g1_sinks, g2_sinks) ==
    LET sigs(compiled, length) ==
            [i \in 1..Cardinality(compiled) |->
               <<SortedSeq({compiled_to_int(c, length) : c \in compiled})[i], 1>>]
    IN normal_strategy(sigs(g1_sig_nf, g1_length), sigs(g2_sig_nf, g2_length),
                       g1_sinks, g2_sinks, None)

\* the values attached to the faults of a noise model
atomic_weights(noise) ==
    UNION {Range(noise[i][2]) : i \in DOMAIN noise}


\* The pairs of diagrams compared: a diagram of the family against a single
\* node that holds all its boundaries, and the pair of test_2_pi_2_fuse as
\* from_pyzx builds it (the spiders before the boundaries)
spiders(d) == {n \in DOMAIN d.type : d.type[n] # "B"}

Fused ==
    {d \in Diagrams :
       /\ Cardinality(spiders(d)) = 1
       /\ Len(boundary_nodes(d)) >= 1
       /\ Cardinality(DOMAIN d.edges) = Len(boundary_nodes(d))}

TwoPiHalfSpiders ==
    [type |-> (0 :> "Z") @@ (1 :> "Z") @@ (2 :> "B") @@ (3 :> "B"),
     phase |-> (0 :> 1) @@ (1 :> 1) @@ (2 :> 0) @@ (3 :> 0),
     edges |-> (0 :> <<0, 2>>) @@ (1 :> <<0, 1>>) @@ (2 :> <<1, 3>>),
     free_nodes |-> <<>>,
     free_edges |-> <<>>]

OnePiSpider ==
    [type |-> (0 :> "Z") @@ (1 :> "B") @@ (2 :> "B"),
     phase |-> (0 :> 2) @@ (1 :> 0) @@ (2 :> 0),
     edges |-> (0 :> <<0, 1>>) @@ (1 :> <<0, 2>>),
     free_nodes |-> <<>>,
     free_edges |-> <<>>]

EquivPairs ==
    {p \in Diagrams \X Fused :
       Len(boundary_nodes(p[1])) = Len(boundary_nodes(p[2]))}
    \cup {<<TwoPiHalfSpiders, OnePiSpider>>}

EquivInit ==
    /\ \E p \in EquivPairs :
         eq = [d1 |-> p[1], d2 |-> p[2],
               flip_ops_1 |-> <<>>, flip_ops_2 |-> <<>>,
               pushed_out_noise_1 |-> <<>>, pushed_out_noise_2 |-> <<>>,
               g1_sig_nf |-> {}, g2_sig_nf |-> {}, result |-> None]
    /\ qpc = "called"
    /\ hash_desc \in BOOLEAN
    /\ diagram = <<>>
    /\ stabs = <<>>
    /\ regions = <<>>
    /\ partitions = <<>>
    /\ part_webs = <<>>
    /\ flips = <<>>
    /\ model = <<>>
    /\ pushed = <<>>
    /\ repushed = <<>>
    /\ wpc = "idle"
    /\ EnumIdle
    /\ FlipIdle
    /\ PauliIdle
    /\ RedGreenIdle
    /\ StimIdle

\* flip_ops_1 = build_flip_operators(noise_1.diagram());
\* pushed_out_noise_1 = pushout(noise_1, flip_ops_1), noise_1 the unit-weight
\* X, Y, Z flips of every edge
EquivPushOut1 ==
    /\ qpc = "called"
    /\ \E fo \in build_flip_operators(eq.d1) :
         IF fo.ok
         THEN /\ eq' = [eq EXCEPT
                          !.flip_ops_1 = fo,
                          !.pushed_out_noise_1 =
                              push_out(weighted_edge_flip_noise(eq.d1, 1, 1, 1), fo)]
              /\ qpc' = "pushed_1"
         ELSE /\ eq' = eq
              /\ qpc' = "raised"
    /\ UNCHANGED hash_desc
    /\ UNCHANGED NotEquiv

\* the same for noise_2
EquivPushOut2 ==
    /\ qpc = "pushed_1"
    /\ \E fo \in build_flip_operators(eq.d2) :
         IF fo.ok
         THEN /\ eq' = [eq EXCEPT
                          !.flip_ops_2 = fo,
                          !.pushed_out_noise_2 =
                              push_out(weighted_edge_flip_noise(eq.d2, 1, 1, 1), fo)]
              /\ qpc' = "pushed_2"
         ELSE /\ eq' = eq
              /\ qpc' = "raised"
    /\ UNCHANGED hash_desc
    /\ UNCHANGED NotEquiv

\* _is_fault_equivalence up to the two lists of compiled atomic faults
EquivCompile ==
    /\ qpc = "pushed_2"
    /\ IF atomic_weights(eq.pushed_out_noise_1) # {1}
          \/ atomic_weights(eq.pushed_out_noise_2) # {1}
       THEN /\ eq' = eq
            /\ qpc' = "raised"
       ELSE LET num_detectors_1 == Len(eq.flip_ops_1.region_gen_set)
                num_detectors_2 == Len(eq.flip_ops_2.region_gen_set)
                compiled_stabilisers ==
                    stabilisers_of(eq.flip_ops_1.stab_gen_set, boundary_idx_map(eq.d1))
            IN /\ eq' = [eq EXCEPT
                    !.g1_sig_nf = compile_atomic_faults(
                        eq.pushed_out_noise_1,
                        from_stabilisers(compiled_stabilisers, num_detectors_1),
                        boundary_idx_map(eq.d1),
                        [i \in 0..(num_detectors_1 - 1) |-> i]),
                    !.g2_sig_nf = compile_atomic_faults(
                        eq.pushed_out_noise_2,
                        from_stabilisers(compiled_stabilisers, num_detectors_2),
                        boundary_idx_map(eq.d2),
                        [i \in 0..(num_detectors_2 - 1) |-> i])]
               /\ qpc' = "compiled"
    /\ UNCHANGED hash_desc
    /\ UNCHANGED NotEquiv

\* the two calls of _smallest_size_iteration and the returned value
EquivCompare ==
    /\ qpc = "compiled"
    /\ LET num_detectors_1 == Len(eq.flip_ops_1.region_gen_set)
           num_detectors_2 == Len(eq.flip_ops_2.region_gen_set)
           length_1 == 2 * Len(boundary_nodes(eq.d1)) + num_detectors_1
           length_2 == 2 * Len(boundary_nodes(eq.d2)) + num_detectors_2
           g1_g2_weight == smallest_size_iteration(
               eq.g1_sig_nf, eq.g2_sig_nf, length_1, length_2,
               num_detectors_1, num_detectors_2)
           g2_g1_weight == smallest_size_iteration(
               eq.g2_sig_nf, eq.g1_sig_nf, length_2, length_1,
               num_detectors_2, num_detectors_1)
       IN eq' = [eq EXCEPT !.result = IF g1_g2_weight # None THEN FALSE
                                       ELSE g2_g1_weight = None]
    /\ qpc' = "returned"
    /\ UNCHANGED hash_desc
    /\ UNCHANGED NotEquiv

EquivNext == EquivPushOut1 \/ EquivPushOut2 \/ EquivCompile \/ EquivCompare

SpecEquiv == EquivInit /\ [][EquivNext]_vars

\* b - Z(pi/2) - Z(pi/2) - b and b - Z(pi) - b, whatever the numbering
IsTwoPiHalfSpiders(d) ==
    /\ Len(boundary_nodes(d)) = 2
    /\ Cardinality(spiders(d)) = 2
    /\ \A n \in spiders(d) :
         /\ d.type[n] = "Z"
         /\ d.phase[n] = 1
         /\ Cardinality(incident_edges(d, n)) = 2
         /\ \E b \in Range(boundary_nodes(d)) : b \in neighbor_set(d, n)
    /\ Cardinality(DOMAIN d.edges) = 3

IsOnePiSpider(d) ==
    /\ Len(boundary_nodes(d)) = 2
    /\ Cardinality(spiders(d)) = 1
    /\ \A n \in spiders(d) :
         /\ d.type[n] = "Z"
         /\ d.phase[n] = 2
         /\ Cardinality(incident_edges(d, n)) = 2
    /\ Cardinality(DOMAIN d.edges) = 2

\* C20: is_fault_equivalence returns True for two pi/2 Z-spiders in series
\* against one pi Z-spider, under unit-weight X, Y, Z flips of every edge.
C20_FuseIsEquivalent ==
    (qpc = "returned" /\ IsTwoPiHalfSpiders(eq.d1) /\ IsOnePiSpider(eq.d2)) =>
        eq.result = TRUE

C20_Witness ==
    /\ qpc = "returned"
    /\ eq.d1 = TwoPiHalfSpiders
    /\ eq.d2 = OnePiSpider
    /\ eq.result = TRUE


(***************************************************************************)
(* Operations on Pauli strings: two strings are constructed, then one       *)
(* operation of PauliString or of the stabiliser normalisation is applied.  *)
(***************************************************************************)
PauliEdges == 0..(MaxPauliEdges - 1)

\* the arguments a string is built from: a str, a dict, or the arguments of unary
PauliArgs(kind) ==
    IF kind = "str"
    THEN {[kind |-> "str", o |-> o] :
            o \in UNION {[1..n -> Pauli] : n \in 0..MaxPauliEdges}}
    ELSE IF kind = "dict"
    THEN {[kind |-> "dict", o |-> o] :
            o \in UNION {[S -> Pauli] : S \in SUBSET PauliEdges}}
    ELSE {[kind |-> "unary", edge |-> e, pauli |-> pl] : e \in PauliEdges, pl \in Pauli}

\* PauliString(o) or PauliString.unary(edge, pauli)
construct(arg) ==
    IF arg.kind = "str" THEN PauliString_str(arg.o)
    ELSE IF arg.kind = "dict" THEN PauliString(arg.o)
    ELSE unary(arg.edge, arg.pauli)

\* the injective index maps onto 0..n-1 of a set of n edges
IdxMaps(S) ==
    {m \in [S -> 0..(Cardinality(S) - 1)] : \A x, y \in S : m[x] = m[y] => x = y}

PauliInit ==
    /\ \E kind \in {"str", "dict", "unary"} :
         p_in \in PauliArgs(kind) \X PauliArgs(kind)
    /\ p_a = <<>>
    /\ p_b = <<>>
    /\ p_arg = <<>>
    /\ p_out = <<>>
    /\ ppc = "args"
    /\ EnumIdle
    /\ FlipIdle
    /\ WebIdle
    /\ EquivIdle
    /\ RedGreenIdle
    /\ StimIdle

\* a = PauliString(...); b = PauliString(...)
Construct ==
    /\ ppc = "args"
    /\ p_a' = construct(p_in[1])
    /\ p_b' = construct(p_in[2])
    /\ ppc' = "built"
    /\ UNCHANGED <<p_in, p_arg, p_out>>
    /\ UNCHANGED NotPauli

\* a * b
Mul ==
    /\ ppc = "built"
    /\ p_out' = PauliString_mul(p_a, p_b)
    /\ ppc' = "mul"
    /\ UNCHANGED <<p_in, p_a, p_b, p_arg>>
    /\ UNCHANGED NotPauli

\* a.commutes(b)
Commutes ==
    /\ ppc = "built"
    /\ p_out' = commutes(p_a, p_b)
    /\ ppc' = "commutes"
    /\ UNCHANGED <<p_in, p_a, p_b, p_arg>>
    /\ UNCHANGED NotPauli

\* a.restrict(indices)
Restrict ==
    /\ ppc = "built"
    /\ \E indices \in SUBSET (0..MaxPauliEdges) :
         /\ p_arg' = indices
         /\ p_out' = restrict(p_a, indices)
    /\ ppc' = "restrict"
    /\ UNCHANGED <<p_in, p_a, p_b>>
    /\ UNCHANGED NotPauli

\* a.is_trivial()
IsTrivial ==
    /\ ppc = "built"
    /\ p_out' = is_trivial(p_a)
    /\ ppc' = "is_trivial"
    /\ UNCHANGED <<p_in, p_a, p_b, p_arg>>
    /\ UNCHANGED NotPauli

\* a.compile(idx_map), b.compile(idx_map); idx_map[idx] raises KeyError for
\* an edge the map does not hold
Compile ==
    /\ ppc = "built"
    /\ \E S \in SUBSET PauliEdges : \E idx_map \in IdxMaps(S) :
         /\ p_arg' = idx_map
         /\ IF DOMAIN p_a \cup DOMAIN p_b \subseteq S
            THEN /\ p_out' = <<compile(p_a, idx_map), compile(p_b, idx_map)>>
                 /\ ppc' = "compile"
            ELSE /\ p_out' = "KeyError"
                 /\ ppc' = "raised"
    /\ UNCHANGED <<p_in, p_a, p_b>>
    /\ UNCHANGED NotPauli

\* AugmentedStabilisers.from_stabilisers(_stabilisers([a, b], idx_map), num_sinks)
Stabilise ==
    /\ ppc = "built"
    /\ \E idx_map \in IdxMaps(PauliEdges), num_sinks \in 0..MaxSinks :
         /\ p_arg' = [boundary_idx_map |-> idx_map, num_sinks |-> num_sinks]
         /\ p_out' = from_stabilisers(stabilisers_of(<<p_a, p_b>>, idx_map), num_sinks)
    /\ ppc' = "stabilisers"
    /\ UNCHANGED <<p_in, p_a, p_b>>
    /\ UNCHANGED NotPauli

\* stabilisers.normalise_single(compiled_fault)
Normalise ==
    /\ ppc = "stabilisers"
    /\ \E compiled_fault \in SUBSET (1..p_out.rref.ncols) :
         /\ p_arg' = [stabilisers |-> p_out, compiled_fault |-> compiled_fault]
         /\ p_out' = normalise(p_out, compiled_fault)
    /\ ppc' = "normalised"
    /\ UNCHANGED <<p_in, p_a, p_b>>
    /\ UNCHANGED NotPauli

PauliNext ==
    \/ Construct
    \/ Mul
    \/ Commutes
    \/ Restrict
    \/ IsTrivial
    \/ Compile
    \/ Stabilise
    \/ Normalise

SpecPauli == PauliInit /\ [][PauliNext]_vars


\* the local Pauli of a string on an edge, I where the string stores nothing
local(self, e) == IF e \in DOMAIN self THEN self[e] ELSE "I"

\* every string over the edges of the Pauli operations
AllPauliStrings == UNION {[S -> {"X", "Y", "Z"}] : S \in SUBSET PauliEdges}

\* the Pauli table by the X and Z parts of the two factors
PauliTable(x, y) ==
    LET xpart(q) == q \in {"X", "Y"}
        zpart(q) == q \in {"Z", "Y"}
        xs == xpart(x) # xpart(y)
        zs == zpart(x) # zpart(y)
    IN IF xs /\ zs THEN "Y" ELSE IF xs THEN "X" ELSE IF zs THEN "Z" ELSE "I"

C16_CommutesIsParity ==
    ppc = "commutes" =>
        p_out = (Cardinality({e \in DOMAIN p_a \cap DOMAIN p_b : p_a[e] # p_b[e]}) % 2 = 0)

\* C17: the product of strings is associative, commutative, has the empty
\* string as its identity and squares to it; on every edge it follows the
\* Pauli table, and Pauli.__mul__ never reaches its AssertionError.
C17_MulIsAbelianTwoGroup ==
    ppc = "mul" =>
        /\ \A c \in AllPauliStrings :
             PauliString_mul(p_a, PauliString_mul(p_b, c)) = PauliString_mul(p_out, c)
        /\ p_out = PauliString_mul(p_b, p_a)
        /\ PauliString_mul(p_a, EmptyPauliString) = p_a
        /\ PauliString_mul(p_a, p_a) = EmptyPauliString
        /\ \A e \in PauliEdges : local(p_out, e) = PauliTable(local(p_a, e), local(p_b, e))
        /\ \A x, y \in Pauli :
             /\ Pauli_mul(x, y) # "AssertionError"
             /\ Pauli_mul(x, y) = PauliTable(x, y)

C17_Witness ==
    /\ ppc = "mul"
    /\ \E e \in DOMAIN p_a \cap DOMAIN p_b : p_a[e] # p_b[e]
    /\ \E e \in DOMAIN p_a \cap DOMAIN p_b : p_a[e] = p_b[e]
    /\ p_out # EmptyPauliString

\* C18: no string stores an identity entry, whether it comes from the
\* constructor on a str or a dict, from unary, from a product or from
\* restrict; unary(e, I) is empty, a product holds exactly the edges whose
\* local product is not I, and is_trivial() holds exactly for the empty string.
C18_NoIdentityStored ==
    LET stored(self) == {self[e] : e \in DOMAIN self}
    IN /\ ppc # "args" =>
            /\ stored(p_a) \subseteq {"X", "Y", "Z"}
            /\ stored(p_b) \subseteq {"X", "Y", "Z"}
            /\ (p_in[1].kind = "unary" /\ p_in[1].pauli = "I") => p_a = EmptyPauliString
       /\ ppc \in {"mul", "restrict"} => stored(p_out) \subseteq {"X", "Y", "Z"}
       /\ ppc = "mul" =>
            DOMAIN p_out = {e \in PauliEdges :
                              PauliTable(local(p_a, e), local(p_b, e)) # "I"}
       /\ ppc = "is_trivial" => p_out = (DOMAIN p_a = {})

C18_Witness ==
    /\ ppc = "mul"
    /\ p_in[1].kind = "str"
    /\ \E i \in DOMAIN p_in[1].o : p_in[1].o[i] = "I"
    /\ \E e \in DOMAIN p_a \cap DOMAIN p_b : e \notin DOMAIN p_out
    /\ p_out # EmptyPauliString

\* C19: under an injective index map of N edges two different strings on
\* those edges never compile to the same vector; the vector has length 2N,
\* Z sets position idx, X sets position idx + N and Y sets both.
C19_CompileInjective ==
    ppc = "compile" =>
        LET N == Cardinality(DOMAIN p_arg)
        IN /\ p_out[1] = p_out[2] => p_a = p_b
           /\ \A c \in AllPauliStrings :
                (DOMAIN c \subseteq DOMAIN p_arg /\ compile(c, p_arg) = p_out[1]) => c = p_a
           /\ p_out[1] \subseteq 0..(2 * N - 1)
           /\ \A e \in DOMAIN p_arg :
                /\ p_arg[e] \in p_out[1] <=> local(p_a, e) \in {"Z", "Y"}
                /\ p_arg[e] + N \in p_out[1] <=> local(p_a, e) \in {"X", "Y"}

C19_Witness ==
    /\ ppc = "compile"
    /\ p_a # p_b
    /\ \E e \in DOMAIN p_a : p_a[e] = "Y" /\ p_arg[e] # e
    /\ \E e \in DOMAIN p_a \cap DOMAIN p_b : p_a[e] = "X" /\ p_b[e] = "Z"

\* C13: a compiled fault and the same fault plus any combination of the rows
\* of the row-reduced stabiliser matrix (with zero detector columns) have the
\* same normal form; normalising twice is normalising once; the detector
\* columns of a fault are never changed.
C13_NormaliseIdentifiesStabilisers ==
    ppc = "normalised" =>
        LET aug == p_arg.stabilisers
            c == p_arg.compiled_fault
            sinks == (2 * MaxPauliEdges + 1)..aug.rref.ncols
        IN /\ \A S \in SUBSET DOMAIN aug.rref.rows :
                normalise(aug, Xor(c, combine(aug.rref.rows, S))) = p_out
           /\ normalise(aug, p_out) = p_out
           /\ p_out \cap sinks = c \cap sinks

C13_Witness ==
    /\ ppc = "normalised"
    /\ p_out # p_arg.compiled_fault
    /\ p_out # {}
    /\ p_arg.stabilisers.rref.ncols > 2 * MaxPauliEdges
    /\ p_arg.compiled_fault \cap {p_arg.stabilisers.rref.ncols} # {}
    /\ \A i \in DOMAIN p_arg.stabilisers.rref.rows : p_arg.stabilisers.rref.rows[i] # {}


(***************************************************************************)
(* _compute step by step on Diagram objects: faulttools/web/compute.py and  *)
(* Diagram.__deepcopy__.  An object is known by its identity; objs maps the *)
(* identities to the objects, an object holding its graph _g with the node  *)
(* data.  The methods delegated to the graph are rebound to the graph of    *)
(* the copy by _rebind_methods, so every method of an object acts on the    *)
(* graph of that object.                                                    *)
(***************************************************************************)
\* a copy by reference: the same object again
same_object(heap, o) == [objs |-> heap, ref |-> o]

\* deepcopy(diagram): Diagram.__deepcopy__ makes a new object and copies
\* every attribute deeply, the graph with its node data among them
deepcopy(heap, o) ==
    LET copy == Cardinality(DOMAIN heap)
    IN [objs |-> heap @@ (copy :> [g |-> heap[o].g]), ref |-> copy]

ComputeInit ==
    /\ \E d \in Diagrams : objs = (0 :> [g |-> d])
    /\ hash_desc \in BOOLEAN
    /\ call = [diagram |-> 0]
    /\ rpc = "called"
    /\ diagram = <<>>
    /\ stabs = <<>>
    /\ regions = <<>>
    /\ partitions = <<>>
    /\ part_webs = <<>>
    /\ flips = <<>>
    /\ model = <<>>
    /\ pushed = <<>>
    /\ repushed = <<>>
    /\ wpc = "idle"
    /\ EnumIdle
    /\ FlipIdle
    /\ PauliIdle
    /\ EquivIdle
    /\ StimIdle

\* d = deepcopy(diagram)
DeepCopy ==
    /\ rpc = "called"
    /\ LET copied == deepcopy(objs, call.diagram)
       IN /\ objs' = copied.objs
          /\ call' = [diagram |-> call.diagram, d |-> copied.ref]
    /\ rpc' = "copied"
    /\ UNCHANGED hash_desc
    /\ UNCHANGED NotRedGreen

\* additional_nodes = to_red_green_form(d), which changes d in place
ToRedGreenForm ==
    /\ rpc = "copied"
    /\ IF has_parallel_edges(objs[call.d].g)
       THEN /\ rpc' = "raised"
            /\ UNCHANGED <<objs, call>>
       ELSE LET done == to_red_green_form(objs[call.d].g)
            IN /\ objs' = [objs EXCEPT ![call.d].g = done.d]
               /\ call' = [diagram |-> call.diagram, d |-> call.d,
                           additional_nodes |->
                               [extra_id_nodes |-> done.extra_id_nodes,
                                expanded_hadamards |-> done.expanded_hadamards]]
               /\ rpc' = "red_green"
    /\ UNCHANGED hash_desc
    /\ UNCHANGED NotRedGreen

\* ordering = determine_ordering(d)
DetermineOrdering ==
    /\ rpc = "red_green"
    /\ call' = [diagram |-> call.diagram, d |-> call.d,
                additional_nodes |-> call.additional_nodes,
                ordering |-> determine_ordering(objs[call.d].g)]
    /\ rpc' = "ordered"
    /\ UNCHANGED <<objs, hash_desc>>
    /\ UNCHANGED NotRedGreen

\* m_d = create_firing_verification(d, ordering)
CreateFiringVerification ==
    /\ rpc = "ordered"
    /\ call' = [diagram |-> call.diagram, d |-> call.d,
                additional_nodes |-> call.additional_nodes,
                ordering |-> call.ordering,
                m_d |-> create_firing_verification(objs[call.d].g, call.ordering)]
    /\ rpc' = "verification"
    /\ UNCHANGED <<objs, hash_desc>>
    /\ UNCHANGED NotRedGreen

\* the rest of _compute with both flags set: the solutions are turned into
\* webs on the edges of the caller's diagram; d and diagram are only read
ReturnWebs ==
    /\ rpc = "verification"
    /\ LET webs == compute_pauli_webs(objs[call.diagram].g)
       IN call' = [diagram |-> call.diagram, d |-> call.d,
                   additional_nodes |-> call.additional_nodes,
                   ordering |-> call.ordering,
                   m_d |-> call.m_d,
                   stabs |-> webs.stabs,
                   regions |-> webs.regions]
    /\ rpc' = "returned"
    /\ UNCHANGED <<objs, hash_desc>>
    /\ UNCHANGED NotRedGreen

ComputeNext ==
    \/ DeepCopy
    \/ ToRedGreenForm
    \/ DetermineOrdering
    \/ CreateFiringVerification
    \/ ReturnWebs

SpecCompute == ComputeInit /\ [][ComputeNext]_vars


\* the nodes that an AdditionalNodes records
recorded_nodes(additional_nodes) ==
    Range(additional_nodes.extra_id_nodes)
    \cup UNION {{additional_nodes.expanded_hadamards[i].r1_node,
                 additional_nodes.expanded_hadamards[i].r2_node,
                 additional_nodes.expanded_hadamards[i].r3_node} :
                  i \in DOMAIN additional_nodes.expanded_hadamards}

\* a diagram of B, Z and X nodes without parallel edges and without an edge
\* between two nodes of one type, every boundary next to a Z spider of
\* phase 0 that has no other boundary
RedGreenForm(d) ==
    /\ \A n \in DOMAIN d.type : d.type[n] \in {"B", "Z", "X"}
    /\ ~has_parallel_edges(d)
    /\ \A e \in DOMAIN d.edges : d.type[d.edges[e][1]] # d.type[d.edges[e][2]]
    /\ \A b \in DOMAIN d.type :
         d.type[b] = "B" =>
            /\ Cardinality(incident_edges(d, b)) = 1
            /\ \A n \in neighbor_set(d, b) :
                 /\ d.type[n] = "Z"
                 /\ d.phase[n] = 0
                 /\ {v \in neighbor_set(d, n) : d.type[v] = "B"} = {b}

\* C21: after to_red_green_form the diagram is in red-green form, and the
\* nodes it holds are the nodes it held before, H boxes apart, with their
\* types and phases, together with the nodes recorded in the AdditionalNodes.
C21_RedGreenFormReached ==
    rpc \in {"red_green", "ordered", "verification", "returned"} =>
        LET d == objs[call.d].g
            before == objs[call.diagram].g
            kept == {n \in DOMAIN before.type : before.type[n] # "H"}
            added == recorded_nodes(call.additional_nodes)
        IN /\ RedGreenForm(d)
           /\ DOMAIN d.type = kept \cup added
           /\ kept \cap added = {}
           /\ \A n \in kept : d.type[n] = before.type[n] /\ d.phase[n] = before.phase[n]
           /\ Cardinality(added) = Len(call.additional_nodes.extra_id_nodes)
                                   + 3 * Len(call.additional_nodes.expanded_hadamards)

C21_Witness ==
    /\ rpc = "red_green"
    /\ Len(call.additional_nodes.expanded_hadamards) >= 1
    /\ Len(call.additional_nodes.extra_id_nodes) >= 2
    /\ \E b \in DOMAIN objs[call.diagram].g.type :
         /\ objs[call.diagram].g.type[b] = "B"
         /\ \E n \in neighbor_set(objs[call.diagram].g, b) :
              objs[call.diagram].g.type[n] = "H"

\* C22: the call leaves the caller's diagram as it was: no step changes the
\* nodes, types, phases, edges or edge indices of the object it was given.
C22_CallerDiagramUnchanged ==
    [][rpc # "idle" => objs'[call.diagram] = objs[call.diagram]]_vars

C22_Witness ==
    /\ rpc = "returned"
    /\ Len(call.stabs) >= 1
    /\ call.d # call.diagram
    /\ objs[call.d].g # objs[call.diagram].g
    /\ DOMAIN objs[call.diagram].g.type # {}

\* C24: on a diagram in red-green form with B boundaries and N other nodes
\* the ordering lists every non-boundary node once, the B neighbours of
\* the boundaries first, then the others of phase 0 or pi, then those of
\* phase pi/2 or 3pi/2; the matrix has N rows and N + B columns, the
\* identity in its first B rows and columns, and from column B on the
\* adjacency of the non-boundary nodes in that order with the diagonal
\* toggled exactly on the nodes of phase pi/2 or 3pi/2.
C24_OrderingAndVerification ==
    (rpc = "verification" /\ RedGreenForm(objs[call.d].g)) =>
        LET d == objs[call.d].g
            o == call.ordering.ordering_to_graph
            m == call.m_d
            boundary == {n \in DOMAIN d.type : d.type[n] = "B"}
            B == Cardinality(boundary)
            N == Cardinality(DOMAIN d.type \ boundary)
            next_to_boundary(n) == \E b \in boundary : n \in neighbor_set(d, b)
            half(n) == d.phase[n] % 2 = 1
            class(n) == IF next_to_boundary(n) THEN 0 ELSE IF half(n) THEN 2 ELSE 1
        IN /\ Len(o) = N
           /\ Range(o) = DOMAIN d.type \ boundary
           /\ \A i, j \in 1..N : i < j => class(o[i]) <= class(o[j])
           /\ \A i \in 1..N : next_to_boundary(o[i]) <=> i <= B
           /\ Len(m.rows) = N
           /\ m.ncols = N + B
           /\ \A i \in 1..N : m.rows[i] \subseteq 1..(N + B)
           /\ \A i, j \in 1..B : (j \in m.rows[i]) <=> (i = j)
           /\ \A i, j \in 1..N :
                (B + j \in m.rows[i]) <=>
                    ((o[j] \in neighbor_set(d, o[i])) # (i = j /\ class(o[i]) = 2))

C24_Witness ==
    /\ rpc = "verification"
    /\ RedGreenForm(objs[call.d].g)
    /\ Len(call.ordering.pi_2_spiders) >= 2
    /\ Len(call.ordering.z_keys) >= 2
    /\ Len(call.ordering.internal_spiders) > Len(call.ordering.pi_2_spiders)

faulttools_normal_strategy(g1_sigs, g2_sigs, g1_sinks, g2_sinks) ==
    LET g1_unique_sigs == {g1_sigs[i][1] : i \in DOMAIN g1_sigs}
        g2_unique_sigs == {g2_sigs[i][1] : i \in DOMAIN g2_sigs}
        g1_sink_mask == Pow2(g1_sinks) - 1
        g2_sink_mask == Pow2(g2_sinks) - 1
        n == Cardinality(g2_unique_sigs)
        combined(last, sigs) == {BitXor(l, a) : l \in last, a \in sigs}
        RECURSIVE iteration(_, _, _, _, _)
        iteration(max_size, g1_lookup, g2_lookup,
                  g1_last_new_signatures, g2_last_new_detectable) ==
            IF max_size > n THEN None
            ELSE
              LET after_g1(g1_new_signatures) ==
                    LET lookup == g1_lookup
                                  \cup {c \div (g1_sink_mask + 1) : c \in g1_new_signatures}
                        g2_new == combined(g2_last_new_detectable, g2_unique_sigs)
                                  \ g2_lookup
                    IN IF \E c \in g2_new :
                            /\ BitAnd(c, g2_sink_mask) = 0
                            /\ c \div (g2_sink_mask + 1) \notin lookup
                       THEN max_size
                       ELSE IF g2_new = {} THEN None
                       ELSE iteration(max_size + 1, lookup,
                                      g2_lookup \cup g2_new,
                                      g1_new_signatures,
                                      {c \in g2_new : BitAnd(c, g2_sink_mask) > 0})
              IN after_g1({c \in combined(g1_last_new_signatures, g1_unique_sigs) :
                             /\ BitAnd(c, g1_sink_mask) = 0
                             /\ c \div (g1_sink_mask + 1) \notin g1_lookup})
    IN IF n = 0 THEN None
       ELSE iteration(1, {0}, {}, {0}, {0})

\* lists of up to n different signatures of unit weight
UnitLists(n) ==
    {l \in CeilLists(n) : \A i \in DOMAIN l :
        /\ l[i][2] = 1
        /\ \A j \in DOMAIN l : l[i][1] = l[j][1] => i = j}

\* the two lists of signatures in normal form and the numbers of sinks
SizeInit ==
    /\ nm1_sigs \in UnitLists(MaxSizeAtomics)
    /\ nm2_sigs \in UnitLists(MaxSizeAtomics)
    /\ d1_detectors \in 0..MaxDetectors
    /\ d2_detectors \in 0..MaxDetectors
    /\ until = None
    /\ nm1 = <<>>
    /\ nm2 = <<>>
    /\ w = 0
    /\ nm1_undetectable = {}
    /\ nm2_undetectable = {}
    /\ result = None
    /\ epc = "size"
    /\ FlipIdle
    /\ WebIdle
    /\ PauliIdle
    /\ EquivIdle
    /\ RedGreenIdle
    /\ StimIdle

\* _normal_strategy(g1_sigs, g2_sigs, g1_sinks, g2_boundaries, g2_sinks)
SmallestSize ==
    /\ epc = "size"
    /\ result' = faulttools_normal_strategy(nm1_sigs, nm2_sigs,
                                             d1_detectors, d2_detectors)
    /\ epc' = "size_done"
    /\ UNCHANGED <<nm1_sigs, nm2_sigs, d1_detectors, d2_detectors, nm1, nm2, w,
                   nm1_undetectable, nm2_undetectable, until>>
    /\ UNCHANGED NotEnum

SpecSize == SizeInit /\ [][SmallestSize]_vars

\* C25: the returned size is the smallest number k of signatures of g2
\* whose XOR enables no sink and whose boundary part is the boundary part of
\* no sink-free XOR of at most k signatures of g1; None when there is none,
\* as for two equal lists.
C25_SmallestMismatchSize ==
    epc = "size_done" =>
        LET sink_free(sigs, sinks, S) ==
                BitAnd(ComboSig(sigs, S), Pow2(sinks) - 1) = 0
            part(sigs, sinks, S) == ComboSig(sigs, S) \div Pow2(sinks)
            matched(S2) ==
                \E S1 \in SUBSET DOMAIN nm1_sigs :
                    /\ Cardinality(S1) <= Cardinality(S2)
                    /\ sink_free(nm1_sigs, d1_detectors, S1)
                    /\ part(nm1_sigs, d1_detectors, S1)
                         = part(nm2_sigs, d2_detectors, S2)
            mismatches == {S2 \in SUBSET DOMAIN nm2_sigs :
                             /\ sink_free(nm2_sigs, d2_detectors, S2)
                             /\ ~matched(S2)}
        IN /\ mismatches = {} => result = None
           /\ mismatches # {} =>
                 /\ result # None
                 /\ \E S2 \in mismatches : Cardinality(S2) = result
                 /\ \A S2 \in mismatches : Cardinality(S2) >= result
           /\ nm1_sigs = nm2_sigs /\ d1_detectors = d2_detectors => result = None

(***************************************************************************)
(* prepare_atomic_faults on lists in any order, a signature listed several  *)
(* times with different weights included.                                   *)
(***************************************************************************)
RECURSIVE AnyLists(_)
AnyLists(n) ==
    IF n = 0 THEN {<<>>}
    ELSE AnyLists(n - 1)
         \cup {Append(l, p) : l \in {k \in AnyLists(n - 1) : Len(k) = n - 1},
                              p \in SigPairs}

PrepareInit ==
    /\ nm1_sigs \in AnyLists(MaxPrepared)
    /\ nm2_sigs = <<>>
    /\ d1_detectors \in 0..MaxDetectors
    /\ d2_detectors = d1_detectors
    /\ until = None
    /\ nm1 = <<>>
    /\ nm2 = <<>>
    /\ w = 0
    /\ nm1_undetectable = {}
    /\ nm2_undetectable = {}
    /\ result = None
    /\ epc = "prepare"
    /\ FlipIdle
    /\ WebIdle
    /\ PauliIdle
    /\ EquivIdle
    /\ RedGreenIdle
    /\ StimIdle

\* nm1_atomics = prepare_atomic_faults(nm1_sigs, num_detectors=d1_detectors)
\* and nm1_pq = prepare_priority_queue(nm1_atomics), likewise for nm2
PrepareAtomicFaults ==
    /\ epc = "prepare"
    /\ nm1' = PreparedModel(nm1_sigs, d1_detectors)
    /\ nm2' = PreparedModel(nm2_sigs, d2_detectors)
    /\ epc' = "prepared"
    /\ UNCHANGED <<nm1_sigs, nm2_sigs, d1_detectors, d2_detectors, w,
                   nm1_undetectable, nm2_undetectable, result, until>>
    /\ UNCHANGED NotEnum

SpecPrepare == PrepareInit /\ [][PrepareAtomicFaults]_vars

\* C26: weight_lookup holds exactly the signatures of the list, each with
\* the smallest weight of its entries wherever they stand in the list, and
\* every signature is in undetectable when its lowest num_detectors bits
\* are zero and a key of detectable_with_detectors otherwise, never both.
C26_MinimumWeightKept ==
    epc = "prepared" =>
        LET atomics == nm1.atomics
            sigs == {nm1_sigs[i][1] : i \in DOMAIN nm1_sigs}
            weights(sig) == {nm1_sigs[i][2] : i \in {j \in DOMAIN nm1_sigs :
                                                       nm1_sigs[j][1] = sig}}
        IN /\ DOMAIN atomics.weight_lookup = sigs
           /\ \A sig \in sigs :
                 /\ atomics.weight_lookup[sig] \in weights(sig)
                 /\ \A v \in weights(sig) : atomics.weight_lookup[sig] <= v
           /\ atomics.undetectable \cup DOMAIN atomics.detectable_with_detectors = sigs
           /\ atomics.undetectable \cap DOMAIN atomics.detectable_with_detectors = {}
           /\ \A sig \in sigs :
                 sig \in atomics.undetectable
                    <=> BitAnd(sig, Pow2(d1_detectors) - 1) = 0

C26_Witness ==
    /\ epc = "prepared"
    /\ \E i, j \in DOMAIN nm1_sigs :
         /\ i < j
         /\ nm1_sigs[i][1] = nm1_sigs[j][1]
         /\ nm1_sigs[i][2] > nm1_sigs[j][2]
         /\ nm1.atomics.weight_lookup[nm1_sigs[i][1]] = nm1_sigs[j][2]
    /\ nm1.atomics.undetectable # {}
    /\ DOMAIN nm1.atomics.detectable_with_detectors # {}

(***************************************************************************)
(* Fault.to_int: faulttools/noise/model.py                                  *)
(***************************************************************************)
\* Fault.to_int
to_int(fault, edge_idx_map, detector_idx_map) ==
    compiled_to_int(Fault_compile(fault, edge_idx_map, detector_idx_map),
                    2 * Cardinality(DOMAIN edge_idx_map)
                    + Cardinality(DOMAIN detector_idx_map))

\* two faults on the edges of a bijective edge_idx_map with detectors of a
\* bijective detector_idx_map
ToIntInit ==
    /\ \E S \in SUBSET PauliEdges, num_detectors \in 0..MaxDetectors :
         /\ p_arg \in {[edge_idx_map |-> em, detector_idx_map |-> dm] :
                          em \in IdxMaps(S),
                          dm \in IdxMaps(0..(num_detectors - 1))}
         /\ p_in \in {<<Fault(a, fa), Fault(b, fb)>> :
                         a \in UNION {[T -> {"X", "Y", "Z"}] : T \in SUBSET S},
                         b \in UNION {[T -> {"X", "Y", "Z"}] : T \in SUBSET S},
                         fa \in SUBSET (0..(num_detectors - 1)),
                         fb \in SUBSET (0..(num_detectors - 1))}
    /\ p_a = <<>>
    /\ p_b = <<>>
    /\ p_out = <<>>
    /\ ppc = "faults"
    /\ EnumIdle
    /\ FlipIdle
    /\ WebIdle
    /\ EquivIdle
    /\ RedGreenIdle
    /\ StimIdle

\* fault.to_int(edge_idx_map, detector_idx_map) for both faults
ToInt ==
    /\ ppc = "faults"
    /\ p_out' = <<to_int(p_in[1], p_arg.edge_idx_map, p_arg.detector_idx_map),
                  to_int(p_in[2], p_arg.edge_idx_map, p_arg.detector_idx_map)>>
    /\ ppc' = "to_int"
    /\ UNCHANGED <<p_in, p_a, p_b, p_arg>>
    /\ UNCHANGED NotPauli

SpecToInt == ToIntInit /\ [][ToInt]_vars

\* C27: with E edges and D detectors the integer of a fault has the D
\* detector bits lowest, the E X bits above them and the E Z bits on top:
\* two different faults have different integers, the lowest D bits are zero
\* exactly for a fault without detector flips, and the integer without its
\* lowest D bits is the integer of the edge flips alone.
C27_DetectorBitsLowest ==
    ppc = "to_int" =>
        LET em == p_arg.edge_idx_map
            dm == p_arg.detector_idx_map
            E == Cardinality(DOMAIN em)
            D == Cardinality(DOMAIN dm)
            layout(i, fault) ==
                /\ i \in 0..(Pow2(2 * E + D) - 1)
                /\ \A t \in DOMAIN dm :
                     (BitAnd(i, Pow2(D - 1 - dm[t])) # 0) <=> (t \in fault.detector_flips)
                /\ \A e \in DOMAIN em :
                     /\ (BitAnd(i, Pow2(D + E - 1 - em[e])) # 0)
                           <=> (local(fault.edge_flips, e) \in {"X", "Y"})
                     /\ (BitAnd(i, Pow2(D + 2 * E - 1 - em[e])) # 0)
                           <=> (local(fault.edge_flips, e) \in {"Z", "Y"})
            boundary(fault) ==
                compiled_to_int({c + 1 : c \in compile(fault.edge_flips, em)}, 2 * E)
        IN /\ p_out[1] = p_out[2] => p_in[1] = p_in[2]
           /\ \A k \in 1..2 :
                /\ layout(p_out[k], p_in[k])
                /\ (BitAnd(p_out[k], Pow2(D) - 1) = 0) <=> (p_in[k].detector_flips = {})
                /\ p_out[k] \div Pow2(D) = boundary(p_in[k])

C27_Witness ==
    /\ ppc = "to_int"
    /\ Cardinality(DOMAIN p_arg.detector_idx_map) = 2
    /\ Cardinality(DOMAIN p_arg.edge_idx_map) = 2
    /\ \E t \in DOMAIN p_arg.detector_idx_map : p_arg.detector_idx_map[t] # t
    /\ Cardinality(p_in[1].detector_flips) = 1
    /\ p_in[2].detector_flips = {}
    /\ p_in[1].edge_flips = p_in[2].edge_flips
    /\ \E e \in DOMAIN p_in[1].edge_flips : p_in[1].edge_flips[e] = "Y"
    /\ p_out[1] # p_out[2]
    /\ p_out[2] > 0

\* what a call of _next_gen_unfold at level lvl may do to the lookups and
\* the queue of a model: before is the model at the call, after at the return
UnfoldKeepsEntries(before, after, lvl, num_detectors) ==
    LET popped == IF lvl \in DOMAIN before.pq THEN before.pq[lvl] ELSE {}
        detectable(sig) == BitAnd(sig, Pow2(num_detectors) - 1) # 0
    IN /\ \A sig \in DOMAIN before.detectable_lookup :
            /\ sig \in DOMAIN after.detectable_lookup
            /\ after.detectable_lookup[sig] = before.detectable_lookup[sig]
       /\ \A sig \in DOMAIN before.undetectable_lookup :
            /\ sig \in DOMAIN after.undetectable_lookup
            /\ after.undetectable_lookup[sig] = before.undetectable_lookup[sig]
       /\ \A sig \in DOMAIN after.detectable_lookup \ DOMAIN before.detectable_lookup :
            after.detectable_lookup[sig] = lvl
       /\ \A sig \in DOMAIN after.undetectable_lookup \ DOMAIN before.undetectable_lookup :
            after.undetectable_lookup[sig] = lvl
       /\ \A sig \in popped :
            IF detectable(sig)
            THEN sig \in DOMAIN after.detectable_lookup
            ELSE sig \div Pow2(num_detectors) \in DOMAIN after.undetectable_lookup
       /\ \A sig \in DOMAIN after.detectable_lookup : detectable(sig)
       /\ after.undetectable_lookup[0] = 0
       /\ \A k \in DOMAIN after.pq :
            (k \notin DOMAIN before.pq \/ after.pq[k] # before.pq[k]) => k >= lvl

\* C28: every call of _next_gen_unfold keeps the entries the two lookups
\* hold with their weights, records a new entry with the level of the call,
\* at which its signature is dequeued for the first time, leaves
\* undetectable_lookup[0] at 0, puts no signature without a detector bit
\* into detectable_lookup, and adds to the queue at no weight below the
\* level; no other step of the search touches the lookups or the queues.
C28_LookupsWriteOnce ==
    [][/\ IF epc = "loop" /\ epc' = "unfold2"
          THEN UnfoldKeepsEntries(nm1, nm1', w', d1_detectors)
          ELSE nm1' = nm1
       /\ IF epc = "unfold2"
          THEN UnfoldKeepsEntries(nm2, nm2', w', d2_detectors)
          ELSE nm2' = nm2]_vars

C28_Witness ==
    /\ epc = "check"
    /\ w >= 2
    /\ \E sig \in DOMAIN nm1.detectable_lookup : nm1.detectable_lookup[sig] = w
    /\ \E sig \in DOMAIN nm1.undetectable_lookup : nm1.undetectable_lookup[sig] = w
    /\ \E sig, other \in DOMAIN nm1.detectable_lookup :
         \E atomic \in DOMAIN nm1.atomics.detectable_with_detectors :
            /\ nm1.detectable_lookup[sig] < w
            /\ sig = BitXor(atomic, other)
            /\ BitAnd(atomic, other) % Pow2(d1_detectors) # 0
            /\ nm1.detectable_lookup[other] + nm1.atomics.weight_lookup[atomic] = w

(***************************************************************************)
(* from_stim: faulttools/glue/stim/stim_circuit.py.  An instruction has one *)
(* target, or one pair of targets; the coordinates of the nodes, the        *)
(* probabilities, the detectors and the observables are left out.           *)
(***************************************************************************)
\* Diagram()
EmptyDiagram ==
    [type |-> EmptyDict, phase |-> EmptyDict, edges |-> EmptyDict,
     free_nodes |-> <<>>, free_edges |-> <<>>]

\* _DiagramBuildingState.is_initialized
is_initialized(state, qubit) == state.current_qubit_nodes[qubit] # None

\* _DiagramBuildingState.ensure_initialized(*qubits): the loop returns at
\* the first qubit that is initialised
RECURSIVE ensure_initialized(_, _)
ensure_initialized(state, qubits) ==
    IF qubits = <<>> THEN state
    ELSE IF is_initialized(state, Head(qubits)) THEN state
    ELSE ensure_initialized(
           [state EXCEPT !.current_qubit_nodes[Head(qubits)] = NextNode(state.d),
                         !.d = add_node(state.d, "X")],
           Tail(qubits))

\* _h for one target: the state and the entry of updated_qubits
h(state, q) ==
    LET built(ready) ==
            [state |-> [ready EXCEPT
                          !.d = add_edge(add_node(ready.d, "H"),
                                         ready.current_qubit_nodes[q], NextNode(ready.d)),
                          !.current_qubit_nodes[q] = NextNode(ready.d)],
             e |-> NextEdge(ready.d)]
    IN built(ensure_initialized(state, <<q>>))

\* _cnot for one group: add_edges raises TypeError for an endpoint None,
\* after the two nodes are added
cnot(state, q_control, q_target) ==
    LET built(ready) ==
            LET control == NextNode(ready.d)
                with_control == add_node(ready.d, "Z")
                target == NextNode(with_control)
                with_target == add_node(with_control, "X")
                from_control == ready.current_qubit_nodes[q_control]
                from_target == ready.current_qubit_nodes[q_target]
                e_control == NextEdge(with_target)
                with_e_control == add_edge(with_target, from_control, control)
                e_target == NextEdge(with_e_control)
            IN IF from_control = None \/ from_target = None
               THEN [ok |-> FALSE, state |-> [ready EXCEPT !.d = with_target],
                     e_control |-> None, e_target |-> None]
               ELSE [ok |-> TRUE,
                     state |-> [ready EXCEPT
                                  !.d = add_edge(add_edge(with_e_control,
                                                          from_target, target),
                                                 control, target),
                                  !.current_qubit_nodes =
                                      [x \in DOMAIN @ |->
                                         IF x = q_target THEN target
                                         ELSE IF x = q_control THEN control
                                         ELSE @[x]]],
                     e_control |-> e_control, e_target |-> e_target]
    IN built(ensure_initialized(state, <<q_control, q_target>>))

\* queue_for_edge_replacement
queue_for_edge_replacement(fault_prot_queue, fault_prot) ==
    Append(fault_prot_queue, [qubits |-> DOMAIN fault_prot, fault_prot |-> fault_prot])

\* flush_edge_for_qubit: the queue and the list of atomic faults after it
RECURSIVE flush_edge_for_qubit(_, _, _, _)
flush_edge_for_qubit(fault_prot_queue, atomic_faults, qubit, edge) ==
    IF fault_prot_queue = <<>>
    THEN [fault_prot_queue |-> <<>>, atomic_faults |-> atomic_faults]
    ELSE
        LET prot == Head(fault_prot_queue)
            keeping(entry, rest) ==
                [fault_prot_queue |-> <<entry>> \o rest.fault_prot_queue,
                 atomic_faults |-> rest.atomic_faults]
            replaced(moved) ==
                IF moved.qubits # {}
                THEN keeping(moved, flush_edge_for_qubit(Tail(fault_prot_queue),
                                                         atomic_faults, qubit, edge))
                ELSE flush_edge_for_qubit(
                       Tail(fault_prot_queue),
                       Append(atomic_faults, PauliString(moved.fault_prot)),
                       qubit, edge)
        IN IF qubit \notin prot.qubits
           THEN keeping(prot, flush_edge_for_qubit(Tail(fault_prot_queue),
                                                   atomic_faults, qubit, edge))
           ELSE replaced([qubits |-> prot.qubits \ {qubit},
                          fault_prot |-> Put(Del(prot.fault_prot, qubit), edge,
                                             prot.fault_prot[qubit])])

\* the record of the declarations: a declaration read is pending with the
\* Pauli of each of its qubits; an edge given to a qubit is noted in every
\* pending declaration that still waits for that qubit; a declaration with
\* all its edges noted leaves the pending ones and the fault it stands for,
\* each Pauli on the edge of its qubit, is expected next
declared(record, decl) ==
    [record EXCEPT !.pending = Append(@, [decl |-> decl, assigned |-> EmptyDict])]

RECURSIVE assigned_from(_, _, _, _)
assigned_from(pending, expected, qubit, edge) ==
    IF pending = <<>> THEN [pending |-> <<>>, expected |-> expected]
    ELSE
        LET entry == Head(pending)
            keeping(item, rest) ==
                [pending |-> <<item>> \o rest.pending, expected |-> rest.expected]
            fault_of(item) ==
                PauliString([e \in Range(item.assigned) |->
                               item.decl[CHOOSE x \in DOMAIN item.assigned :
                                           item.assigned[x] = e]])
            noted(item) ==
                IF DOMAIN item.assigned # DOMAIN item.decl
                THEN keeping(item, assigned_from(Tail(pending), expected, qubit, edge))
                ELSE assigned_from(Tail(pending), Append(expected, fault_of(item)),
                                   qubit, edge)
        IN IF qubit \notin DOMAIN entry.decl \/ qubit \in DOMAIN entry.assigned
           THEN keeping(entry, assigned_from(Tail(pending), expected, qubit, edge))
           ELSE noted([entry EXCEPT !.assigned = Put(@, qubit, edge)])

assigned(record, qubit, edge) ==
    LET done == assigned_from(record.pending, record.expected, qubit, edge)
    IN [record EXCEPT !.pending = done.pending, !.expected = done.expected]

\* the instruction read last, its targets and the current nodes before it
read(record, name, qubits, before) ==
    [record EXCEPT !.last = [name |-> name, qubits |-> qubits, before |-> before]]

\* state = _DiagramBuildingState(...), atomic_faults = [], fault_prot_queue = []
StimInit ==
    /\ \E n_qubits \in 1..MaxQubits :
         stim = [state |-> [d |-> EmptyDiagram,
                            current_qubit_nodes |-> [q \in 0..(n_qubits - 1) |-> None]],
                 fault_prot_queue |-> <<>>,
                 atomic_faults |-> <<>>,
                 measurement_nodes |-> <<>>,
                 pos |-> 0]
    /\ hist = [pending |-> <<>>, expected |-> <<>>,
               last |-> [name |-> "", qubits |-> <<>>, before |-> <<>>]]
    /\ spc = "circuit"
    /\ EnumIdle
    /\ FlipIdle
    /\ WebIdle
    /\ PauliIdle
    /\ EquivIdle
    /\ RedGreenIdle

\* case "H"
InstrH ==
    /\ spc = "circuit"
    /\ stim.pos < MaxInstrs
    /\ \E q \in DOMAIN stim.state.current_qubit_nodes :
         LET done == h(stim.state, q)
             flushed == flush_edge_for_qubit(stim.fault_prot_queue,
                                             stim.atomic_faults, q, done.e)
         IN /\ stim' = [stim EXCEPT !.state = done.state,
                                     !.fault_prot_queue = flushed.fault_prot_queue,
                                     !.atomic_faults = flushed.atomic_faults,
                                     !.pos = @ + 1]
            /\ hist' = read(assigned(hist, q, done.e), "H", <<q>>,
                            stim.state.current_qubit_nodes)
    /\ UNCHANGED spc
    /\ UNCHANGED NotStim

\* case "CX" | "CNOT" | "ZCX"
InstrCX ==
    /\ spc = "circuit"
    /\ stim.pos < MaxInstrs
    /\ \E q_control, q_target \in DOMAIN stim.state.current_qubit_nodes :
         /\ q_control # q_target
         /\ LET done == cnot(stim.state, q_control, q_target)
                flushed_control ==
                    flush_edge_for_qubit(stim.fault_prot_queue, stim.atomic_faults,
                                         q_control, done.e_control)
                flushed == flush_edge_for_qubit(flushed_control.fault_prot_queue,
                                                flushed_control.atomic_faults,
                                                q_target, done.e_target)
            IN IF done.ok
               THEN /\ stim' = [stim EXCEPT
                                   !.state = done.state,
                                   !.fault_prot_queue = flushed.fault_prot_queue,
                                   !.atomic_faults = flushed.atomic_faults,
                                   !.pos = @ + 1]
                    /\ hist' = read(assigned(assigned(hist, q_control, done.e_control),
                                             q_target, done.e_target),
                                    "CX", <<q_control, q_target>>,
                                    stim.state.current_qubit_nodes)
                    /\ UNCHANGED spc
               ELSE /\ stim' = [stim EXCEPT !.state = done.state, !.pos = @ + 1]
                    /\ hist' = read(hist, "CX", <<q_control, q_target>>,
                                    stim.state.current_qubit_nodes)
                    /\ spc' = "raised"
    /\ UNCHANGED NotStim

\* case "R" | "RZ"
InstrR ==
    /\ spc = "circuit"
    /\ stim.pos < MaxInstrs
    /\ \E q \in DOMAIN stim.state.current_qubit_nodes :
         LET d0 == stim.state.d
             m == NextNode(d0)
             e == NextEdge(d0)
             measured == add_edge(add_node(d0, "X"),
                                  stim.state.current_qubit_nodes[q], m)
             flushed == flush_edge_for_qubit(stim.fault_prot_queue,
                                             stim.atomic_faults, q, e)
             reset(dm) == [d |-> add_node(dm, "X"),
                           current_qubit_nodes |->
                               [stim.state.current_qubit_nodes EXCEPT ![q] = NextNode(dm)]]
         IN IF is_initialized(stim.state, q)
            THEN /\ stim' = [stim EXCEPT
                                !.state = reset(measured),
                                !.fault_prot_queue = flushed.fault_prot_queue,
                                !.atomic_faults = flushed.atomic_faults,
                                !.pos = @ + 1]
                 /\ hist' = read(assigned(hist, q, e), "R", <<q>>,
                                 stim.state.current_qubit_nodes)
            ELSE /\ stim' = [stim EXCEPT !.state = reset(d0), !.pos = @ + 1]
                 /\ hist' = read(hist, "R", <<q>>, stim.state.current_qubit_nodes)
    /\ UNCHANGED spc
    /\ UNCHANGED NotStim

\* case "MR" | "MRZ" | "M" | "MZ"
InstrM ==
    /\ spc = "circuit"
    /\ stim.pos < MaxInstrs
    /\ \E q \in DOMAIN stim.state.current_qubit_nodes :
         LET ready == ensure_initialized(stim.state, <<q>>)
             m == NextNode(ready.d)
             e == NextEdge(ready.d)
             measured == add_edge(add_node(ready.d, "X"),
                                  ready.current_qubit_nodes[q], m)
             flushed == flush_edge_for_qubit(stim.fault_prot_queue,
                                             stim.atomic_faults, q, e)
         IN /\ stim' = [stim EXCEPT
                           !.state = [d |-> add_node(measured, "X"),
                                      current_qubit_nodes |->
                                          [ready.current_qubit_nodes EXCEPT
                                             ![q] = NextNode(measured)]],
                           !.fault_prot_queue = flushed.fault_prot_queue,
                           !.atomic_faults = flushed.atomic_faults,
                           !.measurement_nodes = Append(@, m),
                           !.pos = @ + 1]
            /\ hist' = read(assigned(hist, q, e), "M", <<q>>,
                            stim.state.current_qubit_nodes)
    /\ UNCHANGED spc
    /\ UNCHANGED NotStim

\* case "X_ERROR", case "Y_ERROR", case "Z_ERROR"
InstrError ==
    /\ spc = "circuit"
    /\ stim.pos < MaxInstrs
    /\ Len(stim.fault_prot_queue) + 1 <= MaxPending
    /\ \E q \in DOMAIN stim.state.current_qubit_nodes, pauli \in {"X", "Y", "Z"} :
         /\ stim' = [stim EXCEPT
                        !.fault_prot_queue = queue_for_edge_replacement(@, q :> pauli),
                        !.pos = @ + 1]
         /\ hist' = read(declared(hist, q :> pauli), "ERROR", <<q>>,
                         stim.state.current_qubit_nodes)
    /\ UNCHANGED spc
    /\ UNCHANGED NotStim

\* case "DEPOLARIZE1"
InstrDepolarize1 ==
    /\ spc = "circuit"
    /\ stim.pos < MaxInstrs
    /\ Len(stim.fault_prot_queue) + 3 <= MaxPending
    /\ \E q \in DOMAIN stim.state.current_qubit_nodes :
         /\ stim' = [stim EXCEPT
                        !.fault_prot_queue =
                            queue_for_edge_replacement(
                              queue_for_edge_replacement(
                                queue_for_edge_replacement(@, q :> "X"),
                                q :> "Y"),
                              q :> "Z"),
                        !.pos = @ + 1]
         /\ hist' = read(declared(declared(declared(hist, q :> "X"), q :> "Y"),
                                  q :> "Z"),
                         "DEPOLARIZE1", <<q>>, stim.state.current_qubit_nodes)
    /\ UNCHANGED spc
    /\ UNCHANGED NotStim

\* itertools.product([I, X, Y, Z], repeat=2) without (I, I), on two qubits
product_prots(q1, q2) ==
    LET paulis == <<"I", "X", "Y", "Z">>
    IN [k \in 1..15 |-> (q1 :> paulis[(k \div 4) + 1]) @@ (q2 :> paulis[(k % 4) + 1])]

RECURSIVE queue_all(_, _)
queue_all(fault_prot_queue, prots) ==
    IF prots = <<>> THEN fault_prot_queue
    ELSE queue_all(queue_for_edge_replacement(fault_prot_queue, Head(prots)),
                   Tail(prots))

RECURSIVE declared_all(_, _)
declared_all(record, prots) ==
    IF prots = <<>> THEN record
    ELSE declared_all(declared(record, Head(prots)), Tail(prots))

\* case "DEPOLARIZE2"
InstrDepolarize2 ==
    /\ spc = "circuit"
    /\ stim.pos < MaxInstrs
    /\ Len(stim.fault_prot_queue) + 15 <= MaxPending
    /\ \E q1, q2 \in DOMAIN stim.state.current_qubit_nodes :
         /\ q1 # q2
         /\ stim' = [stim EXCEPT
                        !.fault_prot_queue = queue_all(@, product_prots(q1, q2)),
                        !.pos = @ + 1]
         /\ hist' = read(declared_all(hist, product_prots(q1, q2)),
                         "DEPOLARIZE2", <<q1, q2>>, stim.state.current_qubit_nodes)
    /\ UNCHANGED spc
    /\ UNCHANGED NotStim

\* the end of the circuit: the last node of every used qubit is removed,
\* RuntimeError when it has a neighbour; noise = NoiseModel(d, atomic_faults)
Finish ==
    /\ spc = "circuit"
    /\ LET used == {stim.state.current_qubit_nodes[q] :
                      q \in DOMAIN stim.state.current_qubit_nodes} \ {None}
           RECURSIVE removed(_, _)
           removed(dg, nodes) ==
               IF nodes = <<>> THEN dg
               ELSE removed(remove_node(dg, Head(nodes)), Tail(nodes))
       IN IF \E cur_node \in used : neighbor_set(stim.state.d, cur_node) # {}
          THEN /\ spc' = "raised"
               /\ UNCHANGED stim
          ELSE /\ spc' = "returned"
               /\ stim' = [stim EXCEPT !.state.d = removed(@, SortedSeq(used))]
    /\ hist' = read(hist, "END", <<>>, stim.state.current_qubit_nodes)
    /\ UNCHANGED NotStim

StimNext ==
    \/ InstrH
    \/ InstrCX
    \/ InstrR
    \/ InstrM
    \/ InstrError
    \/ InstrDepolarize1
    \/ InstrDepolarize2
    \/ Finish

SpecStim == StimInit /\ [][StimNext]_vars

\* C29: the atomic faults are the faults of the declarations that have got
\* an edge for each of their qubits, one per declaration in the order in
\* which they were completed, each with the declared Pauli of every qubit
\* on the edge given to that qubit, and the queue holds the declarations
\* that still wait for a qubit.
C29_DeclarationsBecomeFaults ==
    spc \in {"circuit", "returned"} =>
        /\ stim.atomic_faults = hist.expected
        /\ Len(stim.fault_prot_queue) = Len(hist.pending)
        /\ \A i \in DOMAIN hist.pending :
             stim.fault_prot_queue[i].qubits
                = DOMAIN hist.pending[i].decl \ DOMAIN hist.pending[i].assigned

\* C30: after a CX on two qubits both have a current node, the call has
\* not raised, and the diagram holds an edge from the node each qubit had,
\* or was given by ensure_initialized, to its new node.
C30_BothQubitsInitialised ==
    hist.last.name = "CX" =>
        /\ spc # "raised"
        /\ \A i \in 1..2 :
             LET q == hist.last.qubits[i]
                 now == stim.state.current_qubit_nodes[q]
             IN /\ now # None
                /\ \E e \in DOMAIN stim.state.d.edges :
                     /\ stim.state.d.edges[e][2] = now
                     /\ stim.state.d.edges[e][1] \in DOMAIN stim.state.d.type
                     /\ stim.state.d.edges[e][1] # now
                     /\ hist.last.before[q] # None
                           => stim.state.d.edges[e][1] = hist.last.before[q]

=============================================================================
